---- MODULE Spec2Model ----
(***************************************************************************)
(* Model of "The 491 - Smart P&L": the hybrid rule/AI categorizer, the     *)
(* receipt lifecycle (DRAFT -> VERIFIED / REJECTED) with its ledger        *)
(* commit, and the receipt validation page that drives verification; the   *)
(* receipt upload, the POS import and the analytics summary.               *)
(*                                                                         *)
(* Amounts are integers in currency minor units (0.01 = 1).                *)
(* Confidences are integers in hundredths (1.0 = 100, 0.8 = 80).           *)
(* The food cost percent is an integer in hundredths of a percent.         *)
(* Dates are day numbers.                                                  *)
(* A line-item text is a sequence of lexemes; the Thai keywords of the     *)
(* rule tables are written in transliteration ("nom" for the keyword       *)
(* meaning milk, ...), and Python's `kw in text` is containment of the     *)
(* keyword lexeme in the sequence.                                         *)
(***************************************************************************)
EXTENDS Integers, Sequences, FiniteSets, Bags, TLC

VARIABLES
    cat_text,      \* categorizer input: the line-item description
    cat_btype,     \* categorizer input: the business type of the branch
    cat_backend,   \* what the classification backend does if it is asked
    cat_result,    \* what categorize_line_item gave back (NoResult before the call)
    cat_asked,     \* whether ask_vertex_ai was invoked by the call
    rc_status,     \* Firestore receipts: status of each receipt
    rc_items,      \* Firestore receipts: line items of each receipt
    ledger,        \* BigQuery fact_transactions: the rows, in insertion order
    reqs,          \* verify requests: in flight, being handled, or answered
    pages,         \* the receipt validation pages that are open
    reject_call,   \* the last rejectReceipt call and its outcome
    upload,        \* the upload_receipt call: its inputs, its loop, its draft
    pos_call,      \* the last POST /pos/upload call and its outcome
    pos_batches,   \* the POS files imported so far: the number of records of each
    summary_call,  \* the last GET /analytics/summary call and its answer
    auth,          \* Firebase Auth: auth.currentUser and the listener calls not yet made
    provider,      \* AuthProvider: the state user, profile, loading
    fetches,       \* AuthProvider: the bag of the uids whose profile is being read
    layout,        \* the route shown, what DashboardLayout renders, a logout under way
    api_call,      \* the last request that went through the api client
    dash,          \* DashboardPage: its state
    dash_reqs,     \* DashboardPage: the summary requests it has sent, in order
    ai_call        \* DashboardPage: the last AI chat request it has sent

catVars == <<cat_text, cat_btype, cat_backend, cat_result, cat_asked>>

lifeVars == <<rc_status, rc_items, ledger, reqs, pages, reject_call>>

uiVars == <<auth, provider, fetches, layout, api_call, dash, dash_reqs, ai_call>>

auxVars == <<upload, pos_call, pos_batches, summary_call, uiVars>>

vars == <<cat_text, cat_btype, cat_backend, cat_result, cat_asked,
          rc_status, rc_items, ledger, reqs, pages, reject_call,
          upload, pos_call, pos_batches, summary_call,
          auth, provider, fetches, layout, api_call, dash, dash_reqs, ai_call>>

NULL == "NULL"

\* ------------------------------------------------------------------------
\* Bounds
\* ------------------------------------------------------------------------
MaxTextLen == 2

\* Verify requests the model follows at the same time.
MaxRequests == 2

\* Times one handler attempts the ledger write of its receipt.
MaxAttempts == 2

\* Line items OCR reads on an uploaded receipt.
MaxItems == 2

\* Records of one POS file.
MaxRecords == 2

\* Rows in the ledger a summary is computed over.
MaxLedgerRows == 3

\* Sign-ins and sign-outs followed in one run of the authentication model.
MaxAuthChanges == 2

\* Handlers of pages pending at an await or a timer at one time.
MaxPending == 2

\* Summary requests the dashboard sends in one run of the dashboard model.
MaxSummaryRequests == 2

\* ------------------------------------------------------------------------
\* Reference data
\* ------------------------------------------------------------------------
BusinessTypes == {"COFFEE", "RESTAURANT"}

COFFEE_CATEGORIES == {"C1", "C2", "C3", "C4", "C5", "C6", "C7", "C8", "C9"}

RESTAURANT_CATEGORIES == {"F1", "F2", "F3", "F4", "F5", "F6", "F7"}

getCategoryOptions(branchType) ==
    IF branchType = "COFFEE" THEN COFFEE_CATEGORIES
    ELSE IF branchType = "RESTAURANT" THEN RESTAURANT_CATEGORIES
    ELSE {}

\* The rule tables are Python dicts: iteration follows insertion order, so a
\* table is the sequence of its (category, keyword list) entries.
COFFEE_KEYWORDS ==
    << [cat |-> "C1", kws |-> <<"malet", "nom", "sairap", "namkhaeng", "kaew">>],
       [cat |-> "C4", kws |-> <<"faifa", "prapa", "internet", "wifi">>] >>

RESTAURANT_KEYWORDS ==
    << [cat |-> "F1", kws |-> <<"mu", "kai", "phak", "khao", "khai">>],
       [cat |-> "F3", kws |-> <<"kaet", "than">>] >>

RULE_CONFIDENCE == 100

DEFAULT_AI_CONFIDENCE == 80

\* ------------------------------------------------------------------------
\* Categorizer inputs
\* ------------------------------------------------------------------------
Range(s) == {s[i] : i \in 1..Len(s)}

KeywordsOf(rules) == UNION {Range(rules[i].kws) : i \in 1..Len(rules)}

\* Lexemes a description is built from: every declared keyword, and one
\* lexeme that is no keyword of any table.
Lexemes == KeywordsOf(COFFEE_KEYWORDS) \cup KeywordsOf(RESTAURANT_KEYWORDS) \cup {"other"}

Texts == UNION {[1..n -> Lexemes] : n \in 0..MaxTextLen}

\* What the external classification backend may do when asked: fail (time
\* out, be unreachable), or answer with an identifier that may be missing,
\* garbage, or a category of either business type, with or without a
\* confidence (-1: the answer carries no confidence).
BackendIds == {"C5", "F2", "ZZ", NULL}

BackendConfidences == {-1, 50, 90}

BackendOutcomes ==
    {[kind |-> "fail", id |-> NULL, confidence |-> -1]}
    \cup {[kind |-> "answer", id |-> i, confidence |-> c] :
            i \in BackendIds, c \in BackendConfidences}

\* ------------------------------------------------------------------------
\* Categorizer
\* ------------------------------------------------------------------------
\* Python: kw in text
Contains(text, kw) == \E i \in 1..Len(text) : text[i] = kw

\* Inner loop: for kw in keywords: if kw in text: return ...
RECURSIVE ScanKeywords(_, _, _)
ScanKeywords(kws, text, j) ==
    IF j > Len(kws) THEN FALSE
    ELSE IF Contains(text, kws[j]) THEN TRUE
    ELSE ScanKeywords(kws, text, j + 1)

\* Outer loop: for cat_id, keywords in rules.items(); NULL when it falls through.
RECURSIVE ScanRules(_, _, _)
ScanRules(rules, text, i) ==
    IF i > Len(rules) THEN NULL
    ELSE IF ScanKeywords(rules[i].kws, text, 1) THEN rules[i].cat
    ELSE ScanRules(rules, text, i + 1)

\* The outer loop taken from the last entry to the first.
RECURSIVE ScanRulesReversed(_, _, _)
ScanRulesReversed(rules, text, i) ==
    IF i > Len(rules) THEN NULL
    ELSE LET k == Len(rules) + 1 - i IN
         IF ScanKeywords(rules[k].kws, text, 1) THEN rules[k].cat
         ELSE ScanRulesReversed(rules, text, i + 1)

RuleMatchLast(rules, text) == ScanRulesReversed(rules, text, 1)

RuleMatch(rules, text) == ScanRules(rules, text, 1)

\* rules = COFFEE_KEYWORDS if business_type == "COFFEE" else RESTAURANT_KEYWORDS
SelectRules(business_type) ==
    IF business_type = "COFFEE" THEN COFFEE_KEYWORDS ELSE RESTAURANT_KEYWORDS

\* The call of the classification backend: vertex_ai.generate(prompt) and
\* response.json(). A call that fails (time out, backend unreachable) raises;
\* an answer comes back as the backend gave it, with the identifier it named
\* (NULL: none) and its confidence (-1: none).
ask_vertex_ai(text, business_type, backend) ==
    [raised     |-> backend.kind = "fail",
     id         |-> backend.id,
     confidence |-> backend.confidence]

\* Python: d.get("confidence", default); a missing key is a negative value here.
Get(value, default) == IF value < 0 THEN default ELSE value

\* return {"category_id": ai_result.get("id"),
\*         "confidence": ai_result.get("confidence", 0.8), "source": "AI"}
AiFallback(ai_result) ==
    [category_id |-> ai_result.id,
     confidence  |-> Get(ai_result.confidence, DEFAULT_AI_CONFIDENCE),
     source      |-> "AI"]

RuleResult(cat_id) ==
    [category_id |-> cat_id, confidence |-> RULE_CONFIDENCE, source |-> "RULE"]

\* Whether the call reaches the AI fallback (layer 2).
AsksBackend(text, business_type) == RuleMatch(SelectRules(business_type), text) = NULL

\* The backend asked first, the rules used only to fill in a missing answer.
categorize_ai_first(text, business_type, backend) ==
    LET ai == ask_vertex_ai(text, business_type, backend)
        m  == RuleMatch(SelectRules(business_type), text)
    IN  IF ai.id # NULL \/ m = NULL THEN AiFallback(ai) ELSE RuleResult(m)

\* The call has ended with the exception of ask_vertex_ai: nothing between
\* the await and the caller catches it, and there is no result.
Raised == [category_id |-> NULL, confidence |-> -1, source |-> "RAISED"]

categorize_line_item(text, business_type, backend) ==
    LET m == RuleMatch(SelectRules(business_type), text)
    IN  IF m # NULL THEN RuleResult(m)
        ELSE LET ai_result == ask_vertex_ai(text, business_type, backend)
             IN  IF ai_result.raised THEN Raised ELSE AiFallback(ai_result)

NoResult == [category_id |-> NULL, confidence |-> -1, source |-> "NONE"]

\* ------------------------------------------------------------------------
\* Receipts (Firestore) and the ledger (BigQuery fact_transactions)
\* ------------------------------------------------------------------------
Receipts == {"r1", "r2"}

\* Firestore branches: a coffee shop and a restaurant.
Branches == {"b1", "b2"}

BranchTypeOf(branch_id) == IF branch_id = "b1" THEN "COFFEE" ELSE "RESTAURANT"

\* receipts.branch_id
BranchOf(rid) == IF rid = "r1" THEN "b1" ELSE "b2"

\* receipts.header.date, as a day number.
ReceiptDate(rid) == IF rid = "r1" THEN 1 ELSE 2

\* The branch a receipt was uploaded for fixes its business type.
BranchType(rid) == IF rid = "r1" THEN "COFFEE" ELSE "RESTAURANT"

BackendDown == [kind |-> "fail", id |-> NULL, confidence |-> -1]

\* The backend answers and names no category.
BackendNoId == [kind |-> "answer", id |-> NULL, confidence |-> -1]

\* upload_receipt, step 4: item.update(cat_result) on each OCR item.
EnrichItem(ocr_item, business_type, backend) ==
    LET cat == categorize_line_item(ocr_item.description, business_type, backend)
    IN  [description |-> ocr_item.description,
         amount      |-> ocr_item.amount,
         category_id |-> cat.category_id]

\* What OCR read on the two uploaded receipts.
OcrItems(rid) ==
    IF rid = "r1"
    THEN << [description |-> <<"other">>, amount |-> 2] >>
    ELSE << [description |-> <<"mu">>, amount |-> 1],
            [description |-> <<"other">>, amount |-> 2] >>

\* upload_receipt, step 5: the draft saved for a receipt (the classification
\* backend named no category during the upload).
DraftItems(rid) ==
    [i \in 1..Len(OcrItems(rid)) |-> EnrichItem(OcrItems(rid)[i], BranchType(rid), BackendNoId)]

RECURSIVE SumAmounts(_)
SumAmounts(items) ==
    IF items = <<>> THEN 0 ELSE items[1].amount + SumAmounts(Tail(items))

\* Total-check tolerance, in minor units (0.01 currency unit).
TOLERANCE == 1

Abs(x) == IF x < 0 THEN -x ELSE x

TotalMatchesNoCheck(items, total_check) == TRUE

\* Precondition of DRAFT -> VERIFIED: the submitted items sum to the submitted
\* total check within the tolerance.
TotalMatches(items, total_check) == Abs(SumAmounts(items) - total_check) <= TOLERANCE

\* Precondition of DRAFT -> VERIFIED: every submitted item has a category.
AllCategorized(items) == \A i \in 1..Len(items) : items[i].category_id # NULL

\* Validation before write: every amount must be non-negative.
AmountsNonNegative(items) == \A i \in 1..Len(items) : items[i].amount >= 0

\* DRAFT -> REJECTED has no precondition beyond the receipt being a DRAFT.
RejectAllowed(status) == status = "DRAFT"

\* Outcome of the precondition check of verifyReceipt.
VerifyOutcome(status, items, total_check) ==
    IF status # "DRAFT" THEN "Refused"
    ELSE IF ~AllCategorized(items) THEN "ValidationError: category"
    ELSE IF ~TotalMatches(items, total_check) THEN "ValidationError: total"
    ELSE IF ~AmountsNonNegative(items) THEN "ValidationError: amount"
    ELSE "passed"

LedgerRowOfFirstItem(rid, items, i) ==
    [transaction_id |-> <<rid, i>>,
     branch_id      |-> BranchOf(rid),
     date           |-> ReceiptDate(rid),
     type           |-> "EXPENSE",
     category_id    |-> items[1].category_id,
     amount         |-> items[1].amount,
     payment_method |-> NULL,
     source         |-> "OCR"]

\* fact_transactions row of line item i of a receipt.
LedgerRow(rid, items, i) ==
    [transaction_id |-> <<rid, i>>,
     branch_id      |-> BranchOf(rid),
     date           |-> ReceiptDate(rid),
     type           |-> "EXPENSE",
     category_id    |-> items[i].category_id,
     amount         |-> items[i].amount,
     payment_method |-> NULL,
     source         |-> "OCR"]

TransactionIds(rows) == {rows[k].transaction_id : k \in 1..Len(rows)}

RECURSIVE AppendRows(_, _, _, _)
AppendRows(rows, rid, items, i) ==
    IF i > Len(items) THEN rows
    ELSE AppendRows(Append(rows, LedgerRow(rid, items, i)), rid, items, i + 1)

RECURSIVE AppendNewRows(_, _, _, _)
AppendNewRows(rows, rid, items, i) ==
    IF i > Len(items) THEN rows
    ELSE IF <<rid, i>> \in TransactionIds(rows)
         THEN AppendNewRows(rows, rid, items, i + 1)
         ELSE AppendNewRows(Append(rows, LedgerRow(rid, items, i)), rid, items, i + 1)

insert_verified_receipt_no_dedup(rows, rid, items) == AppendRows(rows, rid, items, 1)

\* One call writing only the first row that is not yet in the table.
RECURSIVE AppendFirstMissingRow(_, _, _, _)
AppendFirstMissingRow(rows, rid, items, i) ==
    IF i > Len(items) THEN rows
    ELSE IF <<rid, i>> \in TransactionIds(rows)
         THEN AppendFirstMissingRow(rows, rid, items, i + 1)
         ELSE Append(rows, LedgerRow(rid, items, i))

insert_verified_receipt_row_by_row(rows, rid, items) ==
    AppendFirstMissingRow(rows, rid, items, 1)

\* insert_verified_receipt: one row per line item, keyed by the receipt
\* identifier and the item ordinal; a row whose key is already in the table
\* is not written again.
insert_verified_receipt(rows, rid, items) == AppendNewRows(rows, rid, items, 1)

RowsOf(rows, rid) == {k \in 1..Len(rows) : rows[k].transaction_id[1] = rid}

\* ------------------------------------------------------------------------
\* POS import (POST /api/v1/pos/upload)
\* ------------------------------------------------------------------------
\* The files uploaded, and the branch each is uploaded for.
PosBatches == {"pos1", "pos2"}

PosBranch(batch) == IF batch = "pos1" THEN "b2" ELSE "b1"

\* Records of a POS file after the columns are standardized: the two labels
\* of the mapping ("ngoensot" is the Thai label for cash), a label that is
\* not in it, a lower-case spelling, and negative amounts.
PosRecordChoices ==
    { [date |-> 1, amount |-> 3, payment_type |-> "Cash"],
      [date |-> 2, amount |-> 1, payment_type |-> "ngoensot"],
      [date |-> 1, amount |-> 2, payment_type |-> "KPlus"],
      [date |-> 2, amount |-> -1, payment_type |-> "Cash"],
      [date |-> 1, amount |-> -4, payment_type |-> "cash"] }

PosRecordLists == UNION {[1..n -> PosRecordChoices] : n \in 0..MaxRecords}

CASH_LABELS == {"Cash", "ngoensot"}

map_payment_method_keep_label(x) == IF x \in CASH_LABELS THEN "CASH" ELSE x

\* lambda x: 'CASH' if x in ['Cash', <Thai for cash>] else 'TRANSFER'
map_payment_method(x) == IF x \in CASH_LABELS THEN "CASH" ELSE "TRANSFER"

\* df['payment_method'] = df['payment_type'].apply(...)
MapPaymentMethods(df) ==
    [i \in 1..Len(df) |->
        [date           |-> df[i].date,
         amount         |-> df[i].amount,
         payment_method |-> map_payment_method(df[i].payment_type)]]

\* process_pos_file: the mapped frame, or ValueError when the amounts sum
\* to less than zero.
process_pos_file(df) ==
    IF SumAmounts(MapPaymentMethods(df)) < 0
    THEN [error |-> "ValueError", df |-> <<>>]
    ELSE [error |-> NULL, df |-> MapPaymentMethods(df)]

AmountsValidNoCheck(df) == TRUE

\* Endpoint validation: amount must be numeric and positive.
AmountsValid(df) == \A i \in 1..Len(df) : df[i].amount > 0

PosAcceptedAlways(df) == TRUE

\* Invalid data -> HTTP 400: the file is imported only if every check passes.
PosAccepted(df) == AmountsValid(df) /\ process_pos_file(df).error = NULL

\* fact_transactions row of record i of a POS file.
PosRow(batch, df, i) ==
    [transaction_id |-> <<batch, i>>,
     branch_id      |-> PosBranch(batch),
     date           |-> df[i].date,
     type           |-> "REVENUE",
     category_id    |-> NULL,
     amount         |-> df[i].amount,
     payment_method |-> df[i].payment_method,
     source         |-> "POS_FILE"]

\* A writer that replaces the table by the rows of the file.
insert_pos_rows_overwrite(rows, batch, df) == [i \in 1..Len(df) |-> PosRow(batch, df, i)]

\* One row per transaction, inserted in one call.
insert_pos_rows(rows, batch, df) == rows \o [i \in 1..Len(df) |-> PosRow(batch, df, i)]

NoPosCall == [batch |-> NULL, records |-> <<>>, result |-> NULL, rows_inserted |-> 0]

\* ------------------------------------------------------------------------
\* Analytics summary (GET /api/v1/analytics/summary, get_expense_summary)
\* ------------------------------------------------------------------------
\* Categories in the order of their declaration, C1..C9 then F1..F7.
CategoryOrder ==
    <<"C1", "C2", "C3", "C4", "C5", "C6", "C7", "C8", "C9",
      "F1", "F2", "F3", "F4", "F5", "F6", "F7">>

CategoryIndex(c) == CHOOSE i \in 1..Len(CategoryOrder) : CategoryOrder[i] = c

\* Food Cost % = (Category F1 + F6) / Revenue
FOOD_COST_CATEGORIES == {"F1", "F6"}

FilterValidAlways(branch_id, category_id) == TRUE

\* category_id must match branch type: COFFEE -> C1-C9, RESTAURANT -> F1-F7.
FilterValid(branch_id, category_id) ==
    category_id = NULL \/ category_id \in getCategoryOptions(BranchTypeOf(branch_id))

\* Input validation of the summary endpoint.
QueryValid(branch_id, start_date, end_date, category_id) ==
    /\ branch_id \in Branches
    /\ start_date <= end_date
    /\ FilterValid(branch_id, category_id)

\* WHERE branch_id = @branch_id AND date BETWEEN @start_date AND @end_date
RowsInRange(rows, branch_id, start_date, end_date) ==
    LET InRange(row) == /\ row.branch_id = branch_id
                        /\ start_date <= row.date
                        /\ row.date <= end_date
    IN  SelectSeq(rows, InRange)

RevenueRows(rows) ==
    LET IsRevenue(row) == row.type = "REVENUE" IN SelectSeq(rows, IsRevenue)

\* Expense can be narrowed by category; revenue remains included.
ExpenseRows(rows, category_id) ==
    LET IsExpense(row) == /\ row.type = "EXPENSE"
                          /\ category_id = NULL \/ row.category_id = category_id
    IN  SelectSeq(rows, IsExpense)

CategoryTotal(rows, c) ==
    LET InCategory(row) == row.category_id = c IN SumAmounts(SelectSeq(rows, InCategory))

CategoriesOf(rows) == {rows[k].category_id : k \in 1..Len(rows)}

\* Whether group c comes before group d: the larger total first, groups of
\* equal total in the order of declaration.
Before(rows, c, d) ==
    \/ CategoryTotal(rows, c) > CategoryTotal(rows, d)
    \/ /\ CategoryTotal(rows, c) = CategoryTotal(rows, d)
       /\ CategoryIndex(c) <= CategoryIndex(d)

After(rows, c, d) == Before(rows, d, c)

RECURSIVE SortGroupsAscending(_, _)
SortGroupsAscending(rows, cats) ==
    IF cats = {} THEN <<>>
    ELSE LET first == CHOOSE c \in cats : \A d \in cats : After(rows, c, d)
         IN  <<[category_id |-> first, total |-> CategoryTotal(rows, first)]>>
             \o SortGroupsAscending(rows, cats \ {first})

\* GROUP BY category_id ORDER BY total DESC
RECURSIVE SortGroups(_, _)
SortGroups(rows, cats) ==
    IF cats = {} THEN <<>>
    ELSE LET first == CHOOSE c \in cats : \A d \in cats : Before(rows, c, d)
         IN  <<[category_id |-> first, total |-> CategoryTotal(rows, first)]>>
             \o SortGroups(rows, cats \ {first})

expense_by_category(expenses) == SortGroups(expenses, CategoriesOf(expenses))

FoodCost(expenses) ==
    LET IsFoodCost(row) == row.category_id \in FOOD_COST_CATEGORIES
    IN  SumAmounts(SelectSeq(expenses, IsFoodCost))

food_cost_percent_unguarded(food_cost, revenue) ==
    IF revenue = 0 THEN -1 ELSE (food_cost * 10000) \div revenue

\* Food cost over revenue, in hundredths of a percent; 0 when there is no
\* revenue.
food_cost_percent(food_cost, revenue) ==
    IF revenue = 0 THEN 0 ELSE (food_cost * 10000) \div revenue

net_profit_as_sum(total_revenue, total_expense) == total_revenue + total_expense

net_profit(total_revenue, total_expense) == total_revenue - total_expense

\* get_expense_summary over the rows in range.
get_expense_summary(rows, category_id) ==
    LET revenue  == SumAmounts(RevenueRows(rows))
        expenses == ExpenseRows(rows, category_id)
        groups   == expense_by_category(expenses)
    IN  [total_revenue        |-> revenue,
         total_expense        |-> SumAmounts(expenses),
         net_profit           |-> net_profit(revenue, SumAmounts(expenses)),
         food_cost_percent    |-> food_cost_percent(FoodCost(expenses), revenue),
         top_expense_category |-> IF groups = <<>> THEN NULL ELSE groups[1].category_id,
         expense_by_category  |-> groups]

NoSummary ==
    [total_revenue |-> 0, total_expense |-> 0, net_profit |-> 0,
     food_cost_percent |-> 0, top_expense_category |-> NULL,
     expense_by_category |-> <<>>]

NoSummaryCall ==
    [pc |-> "idle", branch_id |-> NULL, start_date |-> 0, end_date |-> 0,
     category_id |-> NULL, error |-> NULL, scan |-> FALSE, scanned |-> {},
     result |-> NoSummary]

\* ------------------------------------------------------------------------
\* Receipt upload (upload_receipt)
\* ------------------------------------------------------------------------
\* Line items OCR may read: one with a COFFEE keyword, one with a
\* RESTAURANT keyword, one with no keyword.
OcrItemChoices ==
    { [description |-> <<"nom">>, amount |-> 1],
      [description |-> <<"mu">>, amount |-> 1],
      [description |-> <<"other">>, amount |-> 2] }

OcrItemLists == UNION {[1..n -> OcrItemChoices] : n \in 0..MaxItems}

\* What the classification backend does for one item of the upload.
UploadBackendOutcomes ==
    { BackendDown, BackendNoId,
      [kind |-> "answer", id |-> "C5", confidence |-> 90],
      [kind |-> "answer", id |-> "F2", confidence |-> -1],
      [kind |-> "answer", id |-> "ZZ", confidence |-> 50] }

NoReceipt == [status |-> NULL, items |-> <<>>]

NoUpload ==
    [pc |-> "idle", branch_type |-> "COFFEE", ocr_items |-> <<>>, backends |-> <<>>,
     enriched_items |-> <<>>, saved_receipt |-> NoReceipt]

\* for item in ocr_data['items']: the loop has an item left to take.
LoopContinues(enriched_items, ocr_items) == Len(enriched_items) < Len(ocr_items)

\* receipt_doc = {"status": "DRAFT", "items": enriched_items, ...}
receipt_doc(enriched_items) == [status |-> "DRAFT", items |-> enriched_items]

\* ------------------------------------------------------------------------
\* Verify requests
\* ------------------------------------------------------------------------
Slots == 1..MaxRequests

\* awaited: the caller's promise of the request is still pending. A request
\* the caller has given up on (axios timeout, connection lost) stays with the
\* backend, no longer awaited.
FreeSlot ==
    [origin |-> NULL, rid |-> NULL, items |-> <<>>, total_check |-> 0,
     pc |-> "free", result |-> NULL, attempts |-> 0, awaited |-> FALSE]

NewRequest(origin, rid, items, total_check) ==
    [origin |-> origin, rid |-> rid, items |-> items, total_check |-> total_check,
     pc |-> "sent", result |-> NULL, attempts |-> 0, awaited |-> TRUE]

\* A request whose body has been read by the handler.
Handled(req, pc, result) ==
    [req EXCEPT !.items = <<>>, !.total_check = 0, !.pc = pc, !.result = result]

\* The handler returns: the answer goes to the caller awaiting it; the answer
\* to a request the caller has given up on is dropped.
Respond(req, result) ==
    IF req.awaited THEN [req EXCEPT !.pc = "responded", !.result = result] ELSE FreeSlot

HasFreeSlot == \E q \in Slots : reqs[q].pc = "free"

FirstFreeSlot == CHOOSE q \in Slots : reqs[q].pc = "free" /\ \A o \in Slots : reqs[o].pc = "free" => q <= o

\* Request bodies a caller of PUT /receipts/{id}/verify may send directly.
ApiItem(amount, category_id) ==
    [description |-> <<"other">>, amount |-> amount, category_id |-> category_id]

ApiItemLists ==
    { <<ApiItem(2, "C1")>>,
      <<ApiItem(1, "C1"), ApiItem(2, "C1")>>,
      <<ApiItem(1, "C1"), ApiItem(2, NULL)>> }

\* Against sums of 2 and 3: exact and off by 3, off by the tolerance and
\* off by one more than the tolerance.
ApiTotals == {2, 5}

\* The bodies sent by a second client while the page is in use: one that
\* passes the preconditions and one with an item left uncategorized.
RivalItemLists == { <<ApiItem(2, "C1")>>, <<ApiItem(2, NULL)>> }

RivalTotals == {2}

\* ------------------------------------------------------------------------
\* Receipt validation page
\* ------------------------------------------------------------------------
Pages == {"p1"}

\* useParams().id: the receipt the page is open on.
receiptId(p) == "r1"

\* What the user may type or select in the fields of an item: a numeral, a
\* negative numeral, a text that is no number; the amount field may be left
\* empty.
AmountTexts == {"2", "-1", "abc", ""}

DescriptionEdits == {<<>>, <<"other">>}

CATEGORY_OPTIONS == COFFEE_CATEGORIES \cup RESTAURANT_CATEGORIES

\* The options the model selects: none, one of each business type.
CategoryEdits == {"", "C1", "F1"}

\* Number(item.amount) and Number.isFinite of it: the empty string converts
\* to 0, a text that is no numeral to NaN.
IsFiniteNumber(text) == text \in {"1", "2", "-1", "0", ""}

Number(text) ==
    CASE text = "1" -> 1
      [] text = "2" -> 2
      [] text = "-1" -> -1
      [] OTHER -> 0

\* String(item.amount ?? 0)
String(amount) ==
    CASE amount = 1 -> "1"
      [] amount = 2 -> "2"
      [] amount = -1 -> "-1"
      [] OTHER -> "0"

\* fetchReceipt: the editable items made from the receipt's items.
EditableItems(items) ==
    [i \in 1..Len(items) |->
        [description |-> items[i].description,
         amount      |-> String(items[i].amount),
         category_id |-> IF items[i].category_id = NULL THEN "" ELSE items[i].category_id]]

\* const total = useMemo(...): the sum of the amounts that are finite numbers.
RECURSIVE total(_)
total(items) ==
    IF items = <<>> THEN 0
    ELSE (IF IsFiniteNumber(items[1].amount) THEN Number(items[1].amount) ELSE 0)
         + total(Tail(items))

ItemErrorNoCategoryCheck(item) ==
    IF item.description = <<>> THEN "description"
    ELSE IF ~IsFiniteNumber(item.amount) \/ Number(item.amount) < 0 THEN "amount"
    ELSE NULL

\* The checks handleVerifyAndSave makes on one item, in order.
ItemError(item) ==
    IF item.description = <<>> THEN "description"
    ELSE IF ~IsFiniteNumber(item.amount) \/ Number(item.amount) < 0 THEN "amount"
    ELSE IF item.category_id = "" THEN "category"
    ELSE NULL

\* The for loop of handleVerifyAndSave: the error of the first bad item.
RECURSIVE FirstItemError(_)
FirstItemError(items) ==
    IF items = <<>> THEN NULL
    ELSE IF ItemError(items[1]) # NULL THEN ItemError(items[1])
    ELSE FirstItemError(Tail(items))

ValidationErrorOf(items) ==
    IF Len(items) = 0 THEN "no items" ELSE FirstItemError(items)

normalizedItems(items) ==
    [i \in 1..Len(items) |->
        [description |-> items[i].description,
         amount      |-> Number(items[i].amount),
         category_id |-> items[i].category_id]]

\* <Button disabled={saving}>, rendered once the receipt is loaded.
ButtonEnabled(page) == page.loaded /\ ~page.saving /\ ~page.navigated

\* <Input disabled={saving}>, <select disabled={saving}>
FieldsEnabled(page) == page.loaded /\ ~page.saving /\ ~page.navigated

\* The page as mounted: loading, no receipt yet (loaded is receipt !== null).
ClosedPage ==
    [loading |-> TRUE, loaded |-> FALSE, items |-> <<>>, saving |-> FALSE,
     error |-> NULL, toast |-> FALSE, navigated |-> FALSE]

\* ------------------------------------------------------------------------
\* Frontend: Firebase Auth, AuthProvider, the protected layout, the api client
\* ------------------------------------------------------------------------
Users == {"u1", "u2"}

\* profile === null
NoProfile == [email |-> NULL, role |-> NULL, default_branch_id |-> NULL]

\* The document users/{uid}; the email stands for the identity of its user.
UserDoc(uid) ==
    IF uid = "u1"
    THEN [email |-> "u1", role |-> "staff", default_branch_id |-> "b1"]
    ELSE [email |-> "u2", role |-> "Executive", default_branch_id |-> ""]

\* getDoc(doc(db, "users", uid)): the document exists, does not exist, or
\* the read fails.
GetDocOutcomes == {"exists", "missing", "error"}

\* What the profile read sets as profile: the data of the document, or null.
ProfileOf(uid, outcome) == IF outcome = "exists" THEN UserDoc(uid) ELSE NoProfile

\* useState: user null, profile null, loading true.
ProviderStart == [user |-> NULL, profile |-> NoProfile, loading |-> TRUE]

\* A layout that checks only the loading flag.
DashboardLayoutNoUserCheck(p) == IF p.loading THEN "checking" ELSE "children"

\* DashboardLayout: what it returns for the state of the provider.
DashboardLayout(p) ==
    IF p.loading THEN "checking"
    ELSE IF p.user = NULL THEN "nothing"
    ELSE "children"

DashboardScreens == {"checking", "nothing", "children"}

\* const navItems of the Sidebar.
navItems ==
    {"/dashboard/welcome", "/dashboard", "/dashboard/upload-receipt",
     "/dashboard/pos-import", "/dashboard/settings"}

\* The route of the receipt validation page of the receipt an upload returns.
ReceiptRoute == "/dashboard/receipts/r1"

\* The routes rendered inside DashboardLayout.
DashboardRoutes == navItems \cup {ReceiptRoute}

Routes == {"/", "/login", "/signup"} \cup DashboardRoutes

\* The route whose page is mounted.
Mounted(lay) == lay.page

\* What the page mounted on a route renders. HomePage shows its checking
\* text while loading or with a user, its landing page otherwise.
Screen(route, p) ==
    IF route \in DashboardRoutes THEN DashboardLayout(p)
    ELSE IF route = "/signup" THEN "signup"
    ELSE IF route = "/login" THEN "login"
    ELSE IF p.loading \/ p.user # NULL THEN "home checking"
    ELSE "home"

\* The effect of the component mounted on a route, when it runs:
\* DashboardLayout sends a visitor without user to /login, LoginPage and
\* HomePage send a user to /dashboard, SignupPage sends a user to
\* /dashboard/upload-receipt.
Redirect(mounted, p, route) ==
    IF mounted \in DashboardRoutes /\ ~p.loading /\ p.user = NULL THEN "/login"
    ELSE IF mounted \in {"/login", "/"} /\ ~p.loading /\ p.user # NULL THEN "/dashboard"
    ELSE IF mounted = "/signup" /\ ~p.loading /\ p.user # NULL
         THEN "/dashboard/upload-receipt"
    ELSE route

\* The links and buttons of the mounted page that go to another route: the
\* Link of LoginPage and of SignupPage, the two Links and the button of
\* HomePage, the Sidebar the layout renders with its children, and the
\* three Links of DashboardWelcomePage.
Hrefs(lay) ==
    CASE lay.screen = "login" -> {"/signup"}
      [] lay.screen = "signup" -> {"/login"}
      [] lay.screen = "home" -> {"/login", "/signup"}
      [] lay.screen = "children" ->
            navItems \cup
            (IF lay.page = "/dashboard/welcome"
             THEN {"/dashboard/upload-receipt", "/dashboard/pos-import", "/dashboard"}
             ELSE {})
      [] OTHER -> {}

\* An async handler of a page that is pending at an await and ends with a
\* call of the router: page is the route of the page it was started on, own
\* tells whether that instance of the page is still mounted and waits for
\* it, resolved whether the call it awaits has resolved.
Pending(page, user) == [page |-> page, user |-> user, resolved |-> FALSE, own |-> TRUE]

\* useState(false) of submitting / isUploading in the mounted instance of
\* the page: true while a handler that instance has started is pending.
submitting(lay) == \E h \in BagToSet(lay.pending) : h.own

\* <Button type="submit" disabled={submitting || loading}> of LoginPage and
\* SignupPage.
SubmitEnabled(lay, p) == ~submitting(lay) /\ ~p.loading

\* The page that was mounted is unmounted: its handlers go on without it.
Unmounted(pending) ==
    [h \in {[g EXCEPT !.own = FALSE] : g \in BagToSet(pending)} |->
        CopiesIn(h, pending) + CopiesIn([h EXCEPT !.own = TRUE], pending)]

\* The accounts SignupPage creates: their users document is written with
\* role staff and the default branch chosen in the form.
SignupUsers == {u \in Users : UserDoc(u).role = "staff"}

\* The browser has loaded the application on a route.
Opened(route) ==
    [route |-> route, page |-> route, screen |-> Screen(route, ProviderStart),
     logout |-> FALSE, pending |-> EmptyBag]

\* The dependencies [loading, router, user] of the effects; the router does
\* not change.
EffectDeps(p) == <<p.loading, p.user>>

\* The component that holds the effect of a route and stays mounted while
\* the router moves inside it: DashboardLayout for the routes of its group,
\* the page itself elsewhere.
EffectHolder(route) == IF route \in DashboardRoutes THEN "DashboardLayout" ELSE route

\* The provider has gone from state p to state q and what is mounted renders
\* again: the effect runs only when one of its dependencies has changed,
\* and the page below DashboardLayout is unmounted when the layout stops
\* rendering its children.
Rendered(lay, p, q) ==
    [lay EXCEPT !.screen = Screen(Mounted(lay), q),
                !.route = IF EffectDeps(q) # EffectDeps(p)
                          THEN Redirect(Mounted(lay), q, lay.route)
                          ELSE lay.route,
                !.pending = IF lay.screen = "children" /\ Screen(Mounted(lay), q) # "children"
                            THEN Unmounted(@)
                            ELSE @]

\* The request headers without Authorization.
NoHeader == [scheme |-> NULL, token |-> NULL]

\* user.getIdToken()
getIdToken(user) == IF user = "u1" THEN "t1" ELSE "t2"

\* api.interceptors.request.use: the Authorization header of the request,
\* for the user read from auth.currentUser when the interceptor started.
Interceptor(user) ==
    IF user = NULL THEN NoHeader
    ELSE [scheme |-> "Bearer", token |-> getIdToken(user)]

ApiPaths == {"/api/v1/branches", "/api/v1/analytics/summary"}

\* pc: "token" while the interceptor awaits getIdToken of the user it read.
NoApiCall ==
    [path |-> NULL, user |-> NULL, pc |-> "idle", sent |-> FALSE,
     Authorization |-> NoHeader]

\* The application has been opened on /dashboard with nobody signed in:
\* the first call of the auth listener is still to come.
AuthIdle ==
    /\ auth = [currentUser |-> NULL, events |-> <<NULL>>, changes |-> 0]
    /\ provider = ProviderStart
    /\ fetches = EmptyBag
    /\ layout = Opened("/dashboard")
    /\ api_call = NoApiCall

\* ------------------------------------------------------------------------
\* Frontend: the dashboard page
\* ------------------------------------------------------------------------
\* response.data.branches of GET /api/v1/branches.
BranchLists == { <<"b1", "b2">>, <<"b2">> }

\* The profiles the dashboard is opened with: none, staff of the coffee
\* shop, staff of the restaurant (the id stored with a blank), staff of a
\* branch the backend does not list, and an executive.
DashProfiles ==
    { NoProfile,
      [email |-> "u1", role |-> "staff", default_branch_id |-> "b1"],
      [email |-> "u1", role |-> "staff", default_branch_id |-> " b2"],
      [email |-> "u1", role |-> "staff", default_branch_id |-> "b9"],
      [email |-> "u1", role |-> "Executive", default_branch_id |-> ""] }

toLowerCase(text) ==
    CASE text = "Executive" -> "executive"
      [] text = "Admin" -> "admin"
      [] OTHER -> text

trim(text) ==
    CASE text = " b2" -> "b2"
      [] OTHER -> text

\* String(profile?.role || "staff").toLowerCase()
normalizedRole(profile) ==
    toLowerCase(IF profile.role \in {NULL, ""} THEN "staff" ELSE profile.role)

canSelectAnyBranch(profile) == normalizedRole(profile) \in {"admin", "executive"}

defaultBranchId(profile) ==
    IF profile.default_branch_id = NULL THEN "" ELSE trim(profile.default_branch_id)

\* branchList.some((branch) => branch.id === id)
hasBranch(branchList, id) == \E i \in 1..Len(branchList) : branchList[i] = id

\* branchList[0]?.id ?? ""
firstBranchId(branchList) == IF branchList = <<>> THEN "" ELSE branchList[1]

\* loadBranches: the branch selected once the list has arrived.
nextBranchId(profile, branchList, lastBranchId) ==
    IF canSelectAnyBranch(profile)
    THEN IF lastBranchId # NULL /\ hasBranch(branchList, lastBranchId)
         THEN lastBranchId ELSE firstBranchId(branchList)
    ELSE IF defaultBranchId(profile) # "" /\ hasBranch(branchList, defaultBranchId(profile))
         THEN defaultBranchId(profile) ELSE firstBranchId(branchList)

\* The second effect: the branch a user who may not choose is held to.
forcedBranchId(profile, branches) ==
    IF defaultBranchId(profile) # "" /\ hasBranch(branches, defaultBranchId(profile))
    THEN defaultBranchId(profile) ELSE firstBranchId(branches)

\* A branch select that leaves the category as it is.
selectBranchKeepCategory(d, branch_id) == [d EXCEPT !.selectedBranchId = branch_id]

\* setSelectedBranchId(id); setSelectedCategoryId("")
selectBranch(d, branch_id) ==
    [d EXCEPT !.selectedBranchId = branch_id, !.selectedCategoryId = ""]

forcedBranchEffect(profile, d) ==
    IF d.branches = <<>> \/ canSelectAnyBranch(profile) THEN d
    ELSE IF forcedBranchId(profile, d.branches) # ""
            /\ forcedBranchId(profile, d.branches) # d.selectedBranchId
         THEN selectBranch(d, forcedBranchId(profile, d.branches))
         ELSE d

\* const selectedBranch / const categoryOptions
categoryOptions(d) ==
    IF hasBranch(d.branches, d.selectedBranchId)
    THEN getCategoryOptions(BranchTypeOf(d.selectedBranchId))
    ELSE {}

\* The days set in the start date input and in the end date input; the page
\* opens on days 1 to 2, and a start of day 3 with an end of day 2 is a range
\* loadSummary refuses.
DashDates == {1, 3}

DashEndDates == {2, 3}

\* params of GET /api/v1/analytics/summary, as loadSummary builds them.
SummaryParams(d) ==
    [branch_id |-> d.selectedBranchId, start_date |-> d.startDate, end_date |-> d.endDate,
     category_id |-> IF d.selectedCategoryId = "" THEN NULL ELSE d.selectedCategoryId,
     pc |-> "sent"]

\* A request that has been answered: of it only the outcome is kept.
SummaryAnswered(pc) ==
    [branch_id |-> NULL, start_date |-> 0, end_date |-> 0, category_id |-> NULL, pc |-> pc]

\* loadSummary up to its await, on the state d with the requests sent so far.
loadSummary(d, sent) ==
    IF d.selectedBranchId = "" THEN [dash |-> d, reqs |-> sent]
    ELSE IF d.startDate > d.endDate
    THEN [dash |-> [d EXCEPT !.error = "date range"], reqs |-> sent]
    ELSE [dash |-> [d EXCEPT !.isLoadingSummary = TRUE, !.error = NULL],
          reqs |-> Append(sent, SummaryParams(d))]

\* The effects that follow a render in which the state has become d: the
\* summary is loaded when the selected branch has changed, and the forced
\* branch is set, which is a change of the selected branch again.
afterRender(profile, old, d, sent) ==
    LET first == IF d.selectedBranchId # old.selectedBranchId
                 THEN loadSummary(d, sent) ELSE [dash |-> d, reqs |-> sent]
        forced == forcedBranchEffect(profile, first.dash)
    IN  IF forced.selectedBranchId # first.dash.selectedBranchId
        THEN loadSummary(forced, first.reqs)
        ELSE [dash |-> forced, reqs |-> first.reqs]

\* <Button onClick={loadSummary} disabled={isLoadingSummary || !selectedBranchId ...}>
ApplyEnabled(d) == ~d.isLoadingSummary /\ d.selectedBranchId # ""

\* The page as it mounts; summary is the number of the request whose
\* response is displayed, 0 for none.
DashStart(lastBranchId) ==
    [branches |-> <<>>, isLoadingBranches |-> TRUE, selectedBranchId |-> "",
     selectedCategoryId |-> "", startDate |-> 1, endDate |-> 2, summary |-> 0,
     isLoadingSummary |-> FALSE, error |-> NULL,
     last_selected_branch_id |-> lastBranchId]

NoAiCall == [context_branch |-> NULL, category_id |-> NULL, sent |-> FALSE]

DashIdle ==
    /\ dash = DashStart(NULL)
    /\ dash_reqs = <<>>
    /\ ai_call = NoAiCall

UiIdle == AuthIdle /\ DashIdle

\* ------------------------------------------------------------------------
\* Lifecycle: initial state and actions
\* ------------------------------------------------------------------------
\* Both receipts have been uploaded and saved as drafts; no page is loaded.
LifeStart ==
    /\ rc_status = [r \in Receipts |-> "DRAFT"]
    /\ rc_items = [r \in Receipts |-> DraftItems(r)]
    /\ ledger = <<>>
    /\ reqs = [q \in Slots |-> FreeSlot]
    /\ pages = [p \in Pages |-> ClosedPage]
    /\ reject_call = [rid |-> NULL, result |-> NULL]

CatIdle ==
    /\ cat_text = <<>>
    /\ cat_btype = "COFFEE"
    /\ cat_backend = BackendDown
    /\ cat_result = NoResult
    /\ cat_asked = FALSE

\* No upload, POS import or summary query has been made.
AuxIdle ==
    /\ upload = NoUpload
    /\ pos_call = NoPosCall
    /\ pos_batches = [b \in PosBatches |-> 0]
    /\ summary_call = NoSummaryCall
    /\ UiIdle

Init == LifeStart /\ CatIdle /\ AuxIdle

\* useEffect / fetchReceipt: GET /api/v1/receipts/{id} answered.
FetchReceipt(p) ==
    /\ pages[p].loading
    /\ pages' = [pages EXCEPT ![p] =
                    [@ EXCEPT !.loading = FALSE,
                              !.loaded = TRUE,
                              !.items = EditableItems(rc_items[receiptId(p)]),
                              !.error = NULL]]
    /\ UNCHANGED <<rc_status, rc_items, ledger, reqs, reject_call, catVars, auxVars>>

\* fetchReceipt, catch and finally: the GET was rejected. The page shows the
\* error card and neither the form nor the button.
FetchReceiptFailed(p) ==
    /\ pages[p].loading
    /\ pages' = [pages EXCEPT ![p] = [@ EXCEPT !.loading = FALSE, !.error = "request"]]
    /\ UNCHANGED <<rc_status, rc_items, ledger, reqs, reject_call, catVars, auxVars>>

\* updateItem(index, patch) from one of the three fields of an item.
updateItem(p, index, field, value) ==
    /\ FieldsEnabled(pages[p])
    /\ index \in 1..Len(pages[p].items)
    /\ pages[p].items[index][field] # value
    /\ pages' = [pages EXCEPT ![p].items[index][field] = value]
    /\ UNCHANGED <<rc_status, rc_items, ledger, reqs, reject_call, catVars, auxVars>>

EditItem(p) ==
    \E index \in 1..Len(pages[p].items) :
        \/ \E v \in DescriptionEdits : updateItem(p, index, "description", v)
        \/ \E v \in AmountTexts : updateItem(p, index, "amount", v)
        \/ \E v \in CategoryEdits : updateItem(p, index, "category_id", v)

\* handleVerifyAndSave, up to an early return on a validation error.
handleVerifyAndSaveInvalid(p) ==
    /\ ButtonEnabled(pages[p])
    /\ ValidationErrorOf(pages[p].items) # NULL
    /\ pages[p].error # ValidationErrorOf(pages[p].items)
    /\ pages' = [pages EXCEPT ![p].error = ValidationErrorOf(pages[p].items)]
    /\ UNCHANGED <<rc_status, rc_items, ledger, reqs, reject_call, catVars, auxVars>>

\* handleVerifyAndSave, up to the await of api.put: the request is sent.
handleVerifyAndSaveSend(p) ==
    /\ ButtonEnabled(pages[p])
    /\ ValidationErrorOf(pages[p].items) = NULL
    /\ HasFreeSlot
    /\ pages' = [pages EXCEPT ![p].saving = TRUE, ![p].error = NULL]
    /\ reqs' = [reqs EXCEPT ![FirstFreeSlot] =
                   NewRequest(p, receiptId(p), normalizedItems(pages[p].items),
                              total(pages[p].items))]
    /\ UNCHANGED <<rc_status, rc_items, ledger, reject_call, catVars, auxVars>>

\* handleVerifyAndSave, up to the await of api.put, when the request will not
\* leave the client: getIdToken fails in the interceptor or there is no
\* connection. Nothing reaches the backend.
handleVerifyAndSaveNotSent(p) ==
    /\ ButtonEnabled(pages[p])
    /\ ValidationErrorOf(pages[p].items) = NULL
    /\ pages' = [pages EXCEPT ![p].saving = TRUE, ![p].error = NULL]
    /\ UNCHANGED <<rc_status, rc_items, ledger, reqs, reject_call, catVars, auxVars>>

\* handleVerifyAndSave after the await: api.put rejected with nothing sent,
\* catch and finally run. The page is saving and awaits no request of its
\* own only between the two steps; a page left in between has lost its
\* state, and the setters do nothing on it.
VerifyNotSent(p) ==
    /\ pages[p].saving
    /\ \A q \in Slots : ~(reqs[q].origin = p /\ reqs[q].awaited)
    /\ pages' = [pages EXCEPT ![p].error = "request", ![p].saving = FALSE]
    /\ UNCHANGED <<rc_status, rc_items, ledger, reqs, reject_call, catVars, auxVars>>

\* handleVerifyAndSave after the await: api.put resolved.
VerifySucceeded(p, q) ==
    /\ reqs[q].origin = p
    /\ reqs[q].awaited
    /\ reqs[q].pc = "responded"
    /\ reqs[q].result = "ok"
    /\ pages' = IF pages[p].navigated THEN pages
                ELSE [pages EXCEPT ![p].toast = TRUE, ![p].saving = FALSE]
    /\ reqs' = [reqs EXCEPT ![q] = FreeSlot]
    /\ UNCHANGED <<rc_status, rc_items, ledger, reject_call, catVars, auxVars>>

\* handleVerifyAndSave after the await: api.put rejected, catch and finally
\* run. The rejection is an error answer of the backend, or the client's own
\* (timeout: 30000 of the api client, connection lost) while the backend has
\* not answered; the request then stays with the backend and nobody awaits
\* it. An answer on its way when the client gives up is lost. The setters do
\* nothing on a page that has been left.
VerifyFailed(p, q) ==
    /\ reqs[q].origin = p
    /\ reqs[q].awaited
    /\ pages' = IF pages[p].navigated THEN pages
                ELSE [pages EXCEPT ![p].error = "request", ![p].saving = FALSE]
    /\ reqs' = [reqs EXCEPT ![q] =
                   IF reqs[q].pc = "responded"
                   THEN FreeSlot
                   ELSE [reqs[q] EXCEPT !.awaited = FALSE]]
    /\ UNCHANGED <<rc_status, rc_items, ledger, reject_call, catVars, auxVars>>

\* The 900 ms timer set on success: router.push("/dashboard/upload-receipt").
\* The page is unmounted and its state is gone.
Navigate(p) ==
    /\ pages[p].toast
    /\ ~pages[p].navigated
    /\ pages' = [pages EXCEPT ![p] = [ClosedPage EXCEPT !.loading = FALSE, !.navigated = TRUE]]
    /\ UNCHANGED <<rc_status, rc_items, ledger, reqs, reject_call, catVars, auxVars>>

\* A caller sends PUT /api/v1/receipts/{id}/verify itself.
ApiVerify(rid, items, total_check) ==
    /\ HasFreeSlot
    /\ reqs' = [reqs EXCEPT ![FirstFreeSlot] = NewRequest("api", rid, items, total_check)]
    /\ UNCHANGED <<rc_status, rc_items, ledger, pages, reject_call, catVars, auxVars>>

\* A second client of the receipt's page: it sends one request at a time.
RivalVerify(rid, items, total_check) ==
    /\ \A q \in Slots : reqs[q].origin # "api"
    /\ ApiVerify(rid, items, total_check)

\* That caller takes the answer.
ApiAnswered(q) ==
    /\ reqs[q].origin = "api"
    /\ reqs[q].pc = "responded"
    /\ reqs' = [reqs EXCEPT ![q] = FreeSlot]
    /\ UNCHANGED <<rc_status, rc_items, ledger, pages, reject_call, catVars, auxVars>>

\* verify_receipt: the preconditions fail; nothing is written.
VerifyRefuse(q) ==
    /\ reqs[q].pc = "sent"
    /\ VerifyOutcome(rc_status[reqs[q].rid], reqs[q].items, reqs[q].total_check) # "passed"
    /\ reqs' = [reqs EXCEPT ![q] =
                   Respond(Handled(reqs[q], "responded", NULL),
                            VerifyOutcome(rc_status[reqs[q].rid], reqs[q].items,
                                          reqs[q].total_check))]
    /\ UNCHANGED <<rc_status, rc_items, ledger, pages, reject_call, catVars, auxVars>>

\* verify_receipt: the receipt is read and the preconditions hold. Nothing
\* is written yet and nothing keeps another request from reading the same
\* receipt before this one writes.
VerifyCheck(q) ==
    /\ reqs[q].pc = "sent"
    /\ VerifyOutcome(rc_status[reqs[q].rid], reqs[q].items, reqs[q].total_check) = "passed"
    /\ reqs' = [reqs EXCEPT ![q] = [@ EXCEPT !.pc = "update", !.total_check = 0]]
    /\ UNCHANGED <<rc_status, rc_items, ledger, pages, reject_call, catVars, auxVars>>

\* verify_receipt, step 1: Firestore is updated with the submitted items and
\* status VERIFIED, whatever the receipt holds by now.
VerifyUpdateFirestore(q) ==
    /\ reqs[q].pc = "update"
    /\ rc_status' = [rc_status EXCEPT ![reqs[q].rid] = "VERIFIED"]
    /\ rc_items' = [rc_items EXCEPT ![reqs[q].rid] = reqs[q].items]
    /\ reqs' = [reqs EXCEPT ![q] = Handled(reqs[q], "insert", NULL)]
    /\ UNCHANGED <<ledger, pages, reject_call, catVars, auxVars>>

\* verify_receipt, step 2: the rows are inserted into BigQuery. The write is
\* acknowledged (step 3, return success), or the acknowledgement is lost and
\* the write is attempted again.
VerifyInsertBigQuery(q, acked) ==
    /\ reqs[q].pc = "insert"
    /\ reqs[q].attempts < MaxAttempts
    /\ ledger' = insert_verified_receipt(ledger, reqs[q].rid, rc_items[reqs[q].rid])
    /\ reqs' = [reqs EXCEPT ![q] =
                   IF acked THEN Respond([@ EXCEPT !.attempts = @ + 1], "ok")
                   ELSE [@ EXCEPT !.attempts = @ + 1]]
    /\ UNCHANGED <<rc_status, rc_items, pages, reject_call, catVars, auxVars>>

\* verify_receipt, step 2 fails: the request ends with an error.
VerifyInsertFails(q) ==
    /\ reqs[q].pc = "insert"
    /\ reqs' = [reqs EXCEPT ![q] = Respond(@, "InfraError")]
    /\ UNCHANGED <<rc_status, rc_items, ledger, pages, reject_call, catVars, auxVars>>

\* rejectReceipt(receiptId)
RejectReceipt(rid) ==
    /\ IF RejectAllowed(rc_status[rid])
       THEN /\ rc_status' = [rc_status EXCEPT ![rid] = "REJECTED"]
            /\ reject_call' = [rid |-> rid, result |-> "ok"]
       ELSE /\ rc_status' = rc_status
            /\ reject_call' = [rid |-> rid, result |-> "Refused"]
    /\ UNCHANGED <<rc_items, ledger, reqs, pages, catVars, auxVars>>

\* The lifecycle as the backend sees it: any client may send any body. The
\* verify requests are for one receipt, where they meet each other and a
\* reject; either receipt may be rejected.
Next ==
    \/ \E items \in ApiItemLists, t \in ApiTotals : ApiVerify("r1", items, t)
    \/ \E q \in Slots : ApiAnswered(q)
    \/ \E q \in Slots : VerifyRefuse(q)
    \/ \E q \in Slots : VerifyCheck(q)
    \/ \E q \in Slots : VerifyUpdateFirestore(q)
    \/ \E q \in Slots, acked \in BOOLEAN : VerifyInsertBigQuery(q, acked)
    \/ \E q \in Slots : VerifyInsertFails(q)
    \/ \E rid \in Receipts : RejectReceipt(rid)

Spec == Init /\ [][Next]_vars

\* The receipt validation page in use on its receipt, with a second client
\* verifying the same receipt, one request at a time.
PageNext ==
    \/ \E p \in Pages : FetchReceipt(p)
    \/ \E p \in Pages : FetchReceiptFailed(p)
    \/ \E p \in Pages : EditItem(p)
    \/ \E p \in Pages : handleVerifyAndSaveInvalid(p)
    \/ \E p \in Pages : handleVerifyAndSaveSend(p)
    \/ \E p \in Pages : handleVerifyAndSaveNotSent(p)
    \/ \E p \in Pages : VerifyNotSent(p)
    \/ \E p \in Pages, q \in Slots : VerifySucceeded(p, q)
    \/ \E p \in Pages, q \in Slots : VerifyFailed(p, q)
    \/ \E p \in Pages : Navigate(p)
    \/ \E p \in Pages, items \in RivalItemLists, t \in RivalTotals :
          RivalVerify(receiptId(p), items, t)
    \/ \E q \in Slots : ApiAnswered(q)
    \/ \E q \in Slots : VerifyRefuse(q)
    \/ \E q \in Slots : VerifyCheck(q)
    \/ \E q \in Slots : VerifyUpdateFirestore(q)
    \/ \E q \in Slots, acked \in BOOLEAN : VerifyInsertBigQuery(q, acked)
    \/ \E q \in Slots : VerifyInsertFails(q)

SpecPage == Init /\ [][PageNext]_vars


\* ------------------------------------------------------------------------
\* Categorizer specification: one call on inputs drawn from the bounded sets
\* ------------------------------------------------------------------------
CatInit ==
    /\ cat_text \in Texts
    /\ cat_btype \in BusinessTypes
    /\ cat_backend \in BackendOutcomes
    /\ cat_result = NoResult
    /\ cat_asked = FALSE
    /\ LifeStart
    /\ AuxIdle

\* categorize_line_item up to its return on a rule match, or up to
\* await ask_vertex_ai(text, business_type) when no rule matches.
Categorize ==
    /\ cat_result = NoResult
    /\ ~cat_asked
    /\ IF AsksBackend(cat_text, cat_btype)
       THEN cat_asked' = TRUE /\ cat_result' = cat_result
       ELSE cat_asked' = FALSE
            /\ cat_result' = categorize_line_item(cat_text, cat_btype, cat_backend)
    /\ UNCHANGED <<cat_text, cat_btype, cat_backend>>
    /\ UNCHANGED <<lifeVars, auxVars>>

\* categorize_line_item after the await: the answer of the backend is put in
\* the result, or the exception of the call ends categorize_line_item.
CategorizeAwaited ==
    /\ cat_result = NoResult
    /\ cat_asked
    /\ cat_result' = categorize_line_item(cat_text, cat_btype, cat_backend)
    /\ UNCHANGED <<cat_text, cat_btype, cat_backend, cat_asked>>
    /\ UNCHANGED <<lifeVars, auxVars>>

CatNext == Categorize \/ CategorizeAwaited

SpecCat == CatInit /\ [][CatNext]_vars

\* ------------------------------------------------------------------------
\* POS import: the endpoint and its specification
\* ------------------------------------------------------------------------
\* POST /api/v1/pos/upload for a file not imported before: the file is
\* validated and normalized, and its rows are inserted, or the call is
\* answered HTTP 400 and nothing is inserted.
PosUpload(batch, records) ==
    /\ pos_batches[batch] = 0
    /\ batch = "pos2" => pos_batches["pos1"] > 0
    /\ IF PosAccepted(records)
       THEN /\ ledger' = insert_pos_rows(ledger, batch, process_pos_file(records).df)
            /\ pos_call' = [batch |-> batch, records |-> records, result |-> "ok",
                            rows_inserted |-> Len(process_pos_file(records).df)]
            /\ pos_batches' = [pos_batches EXCEPT ![batch] = Len(process_pos_file(records).df)]
       ELSE /\ ledger' = ledger
            /\ pos_call' = [batch |-> batch, records |-> records, result |-> "HTTP 400",
                            rows_inserted |-> 0]
            /\ pos_batches' = pos_batches
    /\ UNCHANGED <<rc_status, rc_items, reqs, pages, reject_call, catVars,
                   upload, summary_call, uiVars>>

PosNext == \E batch \in PosBatches, records \in PosRecordLists : PosUpload(batch, records)

SpecPos == Init /\ [][PosNext]_vars

\* ------------------------------------------------------------------------
\* Analytics summary: the endpoint and its specification
\* ------------------------------------------------------------------------
\* GET /api/v1/analytics/summary: the query is validated, then the table is
\* scanned and the summary of the rows in range is returned.
GetSummary(branch_id, start_date, end_date, category_id) ==
    /\ summary_call' =
          IF QueryValid(branch_id, start_date, end_date, category_id)
          THEN [pc |-> "answered", branch_id |-> branch_id, start_date |-> start_date,
                end_date |-> end_date, category_id |-> category_id, error |-> NULL,
                scan |-> TRUE, scanned |-> TransactionIds(ledger),
                result |-> get_expense_summary(
                               RowsInRange(ledger, branch_id, start_date, end_date),
                               category_id)]
          ELSE [pc |-> "answered", branch_id |-> branch_id, start_date |-> start_date,
                end_date |-> end_date, category_id |-> category_id,
                error |-> "ValidationError", scan |-> FALSE, scanned |-> {},
                result |-> NoSummary]
    /\ UNCHANGED <<rc_status, rc_items, ledger, reqs, pages, reject_call, catVars,
                   upload, pos_call, pos_batches, uiVars>>

\* Rows of verified receipts and POS files of the two branches: the rows of
\* the scenario (F1 300, F6 50 and revenue 1000 of the restaurant on day 2),
\* a second F1 row and an F3 row of the same total as F1 on day 1, and a row
\* of the coffee shop.
RowChoices ==
    << [transaction_id |-> <<"r2", 1>>, branch_id |-> "b2", date |-> 2, type |-> "EXPENSE",
        category_id |-> "F1", amount |-> 300, payment_method |-> NULL, source |-> "OCR"],
       [transaction_id |-> <<"r3", 1>>, branch_id |-> "b2", date |-> 2, type |-> "EXPENSE",
        category_id |-> "F6", amount |-> 50, payment_method |-> NULL, source |-> "OCR"],
       [transaction_id |-> <<"pos1", 1>>, branch_id |-> "b2", date |-> 2, type |-> "REVENUE",
        category_id |-> NULL, amount |-> 1000, payment_method |-> "CASH", source |-> "POS_FILE"],
       [transaction_id |-> <<"r4", 1>>, branch_id |-> "b2", date |-> 1, type |-> "EXPENSE",
        category_id |-> "F3", amount |-> 300, payment_method |-> NULL, source |-> "OCR"],
       [transaction_id |-> <<"r5", 1>>, branch_id |-> "b2", date |-> 1, type |-> "EXPENSE",
        category_id |-> "F1", amount |-> 25, payment_method |-> NULL, source |-> "OCR"],
       [transaction_id |-> <<"r1", 1>>, branch_id |-> "b1", date |-> 1, type |-> "EXPENSE",
        category_id |-> "C1", amount |-> 20, payment_method |-> NULL, source |-> "OCR"] >>

\* The rows of RowChoices at the positions in picked, in their order.
RECURSIVE PickRows(_, _)
PickRows(picked, i) ==
    IF i > Len(RowChoices) THEN <<>>
    ELSE (IF i \in picked THEN <<RowChoices[i]>> ELSE <<>>) \o PickRows(picked, i + 1)

SummaryLedgers ==
    {PickRows(picked, 1) :
        picked \in {s \in SUBSET (1..Len(RowChoices)) : Cardinality(s) <= MaxLedgerRows}}

\* Query parameters: the two branches, ranges over days 1 and 2 (one of
\* them with the start after the end), no filter or a category of either
\* business type.
SummaryDays == {1, 2}

SummaryFilters == {NULL, "F1", "C1"}

SumInit ==
    /\ ledger \in SummaryLedgers
    /\ rc_status = [r \in Receipts |-> "DRAFT"]
    /\ rc_items = [r \in Receipts |-> DraftItems(r)]
    /\ reqs = [q \in Slots |-> FreeSlot]
    /\ pages = [p \in Pages |-> ClosedPage]
    /\ reject_call = [rid |-> NULL, result |-> NULL]
    /\ CatIdle
    /\ AuxIdle

SumNext ==
    \E b \in Branches, s \in SummaryDays, e \in SummaryDays, c \in SummaryFilters :
        GetSummary(b, s, e, c)

SpecSum == SumInit /\ [][SumNext]_vars

\* ------------------------------------------------------------------------
\* The ledger with all its writers and a reader: verifications of a receipt
\* of the restaurant, POS imports, and summary queries
\* ------------------------------------------------------------------------
\* Verify bodies: two items of the restaurant's categories, and two items of
\* which one has a negative amount.
LedgerItemLists ==
    { <<ApiItem(1, "F1"), ApiItem(2, "F6")>>,
      <<ApiItem(-1, "F1"), ApiItem(3, "F1")>> }

LedgerTotals == {3}

\* POS files: one that is valid, one with a negative record and a total
\* that is not negative, one with a negative total.
LedgerPosLists ==
    { << [date |-> 1, amount |-> 3, payment_type |-> "Cash"],
         [date |-> 1, amount |-> 2, payment_type |-> "KPlus"] >>,
      << [date |-> 1, amount |-> 3, payment_type |-> "Cash"],
         [date |-> 2, amount |-> -1, payment_type |-> "Cash"] >>,
      << [date |-> 1, amount |-> 3, payment_type |-> "Cash"],
         [date |-> 1, amount |-> -4, payment_type |-> "cash"] >> }

LedgerNext ==
    \/ \E items \in LedgerItemLists, t \in LedgerTotals : ApiVerify("r2", items, t)
    \/ \E q \in Slots : ApiAnswered(q)
    \/ \E q \in Slots : VerifyRefuse(q)
    \/ \E q \in Slots : VerifyCheck(q)
    \/ \E q \in Slots : VerifyUpdateFirestore(q)
    \/ \E q \in Slots, acked \in BOOLEAN : VerifyInsertBigQuery(q, acked)
    \/ \E q \in Slots : VerifyInsertFails(q)
    \/ \E batch \in PosBatches, records \in LedgerPosLists : PosUpload(batch, records)
    \/ GetSummary("b2", 1, 2, NULL)

SpecLedger == Init /\ [][LedgerNext]_vars

\* ------------------------------------------------------------------------
\* Upload specification: one upload_receipt call on OCR items and backend
\* behaviours drawn from the bounded sets
\* ------------------------------------------------------------------------
UploadInit ==
    /\ \E bt \in BusinessTypes, items \in OcrItemLists :
          \E backends \in [1..Len(items) -> UploadBackendOutcomes] :
             upload = [pc |-> "loop", branch_type |-> bt, ocr_items |-> items,
                       backends |-> backends, enriched_items |-> <<>>,
                       saved_receipt |-> NoReceipt]
    /\ UiIdle
    /\ pos_call = NoPosCall
    /\ pos_batches = [b \in PosBatches |-> 0]
    /\ summary_call = NoSummaryCall
    /\ LifeStart
    /\ CatIdle

\* upload_receipt, step 4, one turn of the loop: the next OCR item is
\* categorized and appended to enriched_items. When categorize_line_item
\* raises, the loop catches nothing: upload_receipt ends with the exception
\* and no draft is saved.
UploadCategorizeItem ==
    /\ upload.pc = "loop"
    /\ LoopContinues(upload.enriched_items, upload.ocr_items)
    /\ LET k == Len(upload.enriched_items) + 1
           cat == categorize_line_item(upload.ocr_items[k].description,
                                       upload.branch_type, upload.backends[k])
       IN  upload' = IF cat = Raised
                     THEN [upload EXCEPT !.pc = "raised"]
                     ELSE [upload EXCEPT !.enriched_items =
                              Append(@, EnrichItem(upload.ocr_items[k], upload.branch_type,
                                                   upload.backends[k]))]
    /\ UNCHANGED <<catVars, lifeVars, pos_call, pos_batches, summary_call, uiVars>>

\* upload_receipt, step 5: the loop is over and the draft is saved.
UploadSaveDraft ==
    /\ upload.pc = "loop"
    /\ ~LoopContinues(upload.enriched_items, upload.ocr_items)
    /\ upload' = [upload EXCEPT !.pc = "saved",
                                !.saved_receipt = receipt_doc(upload.enriched_items)]
    /\ UNCHANGED <<catVars, lifeVars, pos_call, pos_batches, summary_call, uiVars>>

UploadNext == UploadCategorizeItem \/ UploadSaveDraft

SpecUpload == UploadInit /\ [][UploadNext]_vars

\* ------------------------------------------------------------------------
\* Lifecycle and ledger properties
\* ------------------------------------------------------------------------
Terminal == {"VERIFIED", "REJECTED"}

Uncategorized(items) == \E i \in 1..Len(items) : items[i].category_id \in {NULL, ""}

Committed(rid) == \A i \in 1..Len(rc_items[rid]) : <<rid, i>> \in TransactionIds(ledger)

NoDuplicateRows ==
    \A k1, k2 \in 1..Len(ledger) :
        ledger[k1].transaction_id = ledger[k2].transaction_id => k1 = k2

TerminalStaysPut ==
    \A r \in Receipts :
        rc_status[r] \in Terminal =>
            /\ rc_status'[r] = rc_status[r]
            /\ rc_items'[r] = rc_items[r]

RejectOfVerifiedRefused ==
    \A r \in Receipts :
        (reject_call' # reject_call /\ reject_call'.rid = r /\ rc_status[r] = "VERIFIED") =>
            /\ reject_call'.result = "Refused"
            /\ rc_status'[r] = "VERIFIED"

\* C1: VERIFIED and REJECTED are terminal: no step of any verify or reject
\* call changes the status or the line items of a receipt that is VERIFIED or
\* REJECTED, and a rejectReceipt call on a VERIFIED receipt is answered
\* Refused and leaves it VERIFIED.
C1_TerminalStatesAreFinal == [][TerminalStaysPut /\ RejectOfVerifiedRefused]_vars

\* C2: in every state, a receipt whose status is VERIFIED has its ledger
\* rows present, one for each of its line items.
C2_VerifiedHasLedgerRows ==
    \A r \in Receipts :
        rc_status[r] = "VERIFIED" => Cardinality(RowsOf(ledger, r)) = Len(rc_items[r])

RepeatedCommitIsNoOp ==
    \A q \in Slots :
        (/\ reqs[q].pc = "insert"
         /\ reqs'[q].attempts = reqs[q].attempts + 1
         /\ Committed(reqs[q].rid))
        => (/\ ledger' = ledger
            /\ reqs'[q].result \in {NULL, "ok"})

\* C3: the ledger commit is idempotent per receipt: a ledger write attempted
\* for a receipt whose rows are already in the ledger leaves the ledger as
\* it is and does not end in an error, and the ledger never holds two rows
\* with the same transaction identifier.
C3_CommitIsIdempotent == [][RepeatedCommitIsNoOp]_vars /\ []NoDuplicateRows

C3_Witness ==
    \E q \in Slots :
        /\ reqs[q].attempts > 1
        /\ reqs[q].result = "ok"
        /\ Cardinality(RowsOf(ledger, reqs[q].rid)) = Len(rc_items[reqs[q].rid])
        /\ Len(rc_items[reqs[q].rid]) > 1

RequestsOfPage(p) == {q \in Slots : reqs[q].origin = p}

\* The requests a pending handleVerifyAndSave of the page awaits.
AwaitedOfPage(p) == {q \in Slots : reqs[q].origin = p /\ reqs[q].awaited}

PassedPreconditions(r) ==
    {q \in Slots : reqs[q].rid = r
                    /\ (reqs[q].pc \in {"update", "insert"} \/ reqs[q].result \in {"ok", "InfraError"})}

\* The verify requests for the receipt that the backend has received and
\* not answered yet.
InFlight(r) == {q \in Slots : reqs[q].rid = r /\ reqs[q].pc \in {"sent", "update", "insert"}}

\* C4: at most one verification of a receipt is in flight at a time: the
\* backend never holds two unanswered verify requests for one receipt, of
\* the verify requests for one receipt at most one has passed the
\* preconditions, and the ledger never holds a row twice.
C4_OneVerificationInFlight ==
    /\ \A r \in Receipts : Cardinality(InFlight(r)) <= 1
    /\ \A r \in Receipts : Cardinality(PassedPreconditions(r)) <= 1
    /\ NoDuplicateRows

TotalMismatchRefused ==
    \A q \in Slots :
        (/\ reqs[q].pc = "sent"
         /\ reqs'[q].pc # "sent"
         /\ rc_status[reqs[q].rid] = "DRAFT"
         /\ Abs(SumAmounts(reqs[q].items) - reqs[q].total_check) > TOLERANCE)
        => (/\ reqs'[q].pc = "responded"
            /\ reqs'[q].result \in {"ValidationError: total", "ValidationError: category"}
            /\ rc_status' = rc_status
            /\ rc_items' = rc_items
            /\ ledger' = ledger)

\* C5: a verify request on a DRAFT receipt whose item amounts sum to a value
\* that differs from its total check by more than the tolerance is answered
\* with a validation error, and handling it changes no receipt's status or
\* items and writes no ledger row.
C5_TotalMismatchIsValidationError == [][TotalMismatchRefused]_vars

C5_Witness ==
    \E q \in Slots :
        /\ reqs[q].result = "ValidationError: total"
        /\ rc_status[reqs[q].rid] = "DRAFT"
        /\ rc_items[reqs[q].rid] = DraftItems(reqs[q].rid)
        /\ RowsOf(ledger, reqs[q].rid) = {}

UncategorizedRefused ==
    \A q \in Slots :
        (/\ reqs[q].pc = "sent"
         /\ reqs'[q].pc # "sent"
         /\ rc_status[reqs[q].rid] = "DRAFT"
         /\ Uncategorized(reqs[q].items))
        => (/\ reqs'[q].result = "ValidationError: category"
            /\ rc_status'[reqs[q].rid] = "DRAFT"
            /\ rc_items' = rc_items)

EverythingVerifiedIsCategorized ==
    /\ \A r \in Receipts : rc_status[r] = "VERIFIED" => ~Uncategorized(rc_items[r])
    /\ \A k \in 1..Len(ledger) :
          ledger[k].type = "EXPENSE" => ledger[k].category_id \notin {NULL, ""}
    /\ \A q \in Slots :
          (reqs[q].origin \in Pages /\ reqs[q].pc = "sent") => ~Uncategorized(reqs[q].items)

\* C6: every line item of every VERIFIED receipt, and every ledger row, has
\* a category; the page sends no verify request with an item that has none;
\* a verify request with such an item is answered with a validation error
\* and leaves the receipt a DRAFT with its items.
C6_VerifiedItemsAreCategorized == []EverythingVerifiedIsCategorized /\ [][UncategorizedRefused]_vars

C6_Witness ==
    \E p \in Pages :
        /\ DraftItems(receiptId(p))[1].category_id = NULL
        /\ pages[p].toast
        /\ rc_status[receiptId(p)] = "VERIFIED"
        /\ rc_items[receiptId(p)] = normalizedItems(pages[p].items)
        /\ Committed(receiptId(p))

\* ------------------------------------------------------------------------
\* Categorizer properties
\* ------------------------------------------------------------------------
CategoryMatches(entry, text) == \E k \in 1..Len(entry.kws) : Contains(text, entry.kws[k])

MatchingEntries(text, business_type) ==
    LET rules == SelectRules(business_type)
    IN  {i \in 1..Len(rules) : CategoryMatches(rules[i], text)}

\* The call has ended: it has returned a result or raised.
Categorized == cat_result # NoResult

\* C7: for every description that contains a declared keyword of the given
\* business type, the call returns a category whose keyword the description
\* contains, with confidence 1.0 and provenance RULE, without asking the
\* classification backend; the result is the same whatever the backend would
\* have done (fail, answer in the set, answer garbage).
C7_RuleMatchIgnoresBackend ==
    (Categorized /\ MatchingEntries(cat_text, cat_btype) # {}) =>
        /\ cat_result.source = "RULE"
        /\ cat_result.confidence = 100
        /\ \E i \in MatchingEntries(cat_text, cat_btype) :
              cat_result.category_id = SelectRules(cat_btype)[i].cat
        /\ ~cat_asked
        /\ \A b \in BackendOutcomes :
              categorize_line_item(cat_text, cat_btype, b) = cat_result

C7_Witness ==
    /\ Categorized
    /\ MatchingEntries(cat_text, cat_btype) # {}
    /\ cat_backend.kind = "answer"
    /\ cat_backend.id \in getCategoryOptions(cat_btype)
    /\ cat_result.source = "RULE"

\* C8: when the description contains keywords of more than one category, the
\* call returns the category declared first among the matching ones: no
\* category declared before the returned one has a keyword in the
\* description.
C8_FirstDeclaredCategoryWins ==
    (Categorized /\ Cardinality(MatchingEntries(cat_text, cat_btype)) > 1) =>
        \E i \in MatchingEntries(cat_text, cat_btype) :
            /\ cat_result.category_id = SelectRules(cat_btype)[i].cat
            /\ \A j \in MatchingEntries(cat_text, cat_btype) : i <= j

C8_Witness ==
    /\ Categorized
    /\ Cardinality(MatchingEntries(cat_text, cat_btype)) > 1
    /\ Len(cat_text) > 1
    /\ CategoryMatches(SelectRules(cat_btype)[2], SubSeq(cat_text, 1, 1))
    /\ cat_result.category_id = SelectRules(cat_btype)[1].cat

\* C9: for every description matching no keyword, when the classification
\* backend call fails, the call does not raise: it returns no category,
\* confidence 0 and the model-inferred provenance (tagged "AI" in the code).
C9_BackendFailureGivesUncategorized ==
    (Categorized /\ MatchingEntries(cat_text, cat_btype) = {} /\ cat_backend.kind = "fail") =>
        /\ cat_asked
        /\ cat_result.category_id = NULL
        /\ cat_result.confidence = 0
        /\ cat_result.source = "AI"

\* C10: when no rule matches and the backend answers with an identifier
\* outside the business type's category set, the item is left with no
\* category, confidence 0 and the model-inferred provenance; and every
\* category the call produces, by rule or by the backend, belongs to the
\* category set of the given business type.
C10_FailsClosedOnForeignCategory ==
    Categorized =>
        /\ (/\ MatchingEntries(cat_text, cat_btype) = {}
            /\ cat_backend.kind = "answer"
            /\ cat_backend.id \notin getCategoryOptions(cat_btype))
           => (/\ cat_result.category_id = NULL
               /\ cat_result.confidence = 0
               /\ cat_result.source = "AI")
        /\ cat_result.category_id # NULL
           => cat_result.category_id \in getCategoryOptions(cat_btype)

\* ------------------------------------------------------------------------
\* Upload properties
\* ------------------------------------------------------------------------
\* The categorization of an item alone, a failed classification giving no
\* category.
CategoryAlone(text, business_type, backend) ==
    IF AsksBackend(text, business_type) /\ backend.kind = "fail" THEN NULL
    ELSE categorize_line_item(text, business_type, backend).category_id

\* C11: a classification failure on one line item does not abort the
\* upload: the upload ends with a saved receipt, which is a DRAFT holding
\* every OCR item with its description and amount, an item whose
\* classification failed has no category, and every other item has the
\* category it gets alone.
C11_FailedItemDoesNotAbortUpload ==
    upload.pc \in {"saved", "raised"} =>
        /\ upload.pc = "saved"
        /\ upload.saved_receipt.status = "DRAFT"
        /\ Len(upload.saved_receipt.items) = Len(upload.ocr_items)
        /\ \A i \in 1..Len(upload.ocr_items) :
              /\ i <= Len(upload.saved_receipt.items)
              /\ upload.saved_receipt.items[i].description = upload.ocr_items[i].description
              /\ upload.saved_receipt.items[i].amount = upload.ocr_items[i].amount
              /\ upload.saved_receipt.items[i].category_id =
                     CategoryAlone(upload.ocr_items[i].description, upload.branch_type,
                                   upload.backends[i])

\* ------------------------------------------------------------------------
\* POS import properties
\* ------------------------------------------------------------------------
PosRowsOf(batch) == {k \in 1..Len(ledger) : ledger[k].transaction_id[1] = batch}

PosLedgerRows == {k \in 1..Len(ledger) : ledger[k].source = "POS_FILE"}

ExpectedPaymentMethod(label) ==
    CASE label = "Cash" -> "CASH"
      [] label = "ngoensot" -> "CASH"
      [] OTHER -> "TRANSFER"

\* C12: every ledger row of a POS file has payment method CASH or TRANSFER;
\* an imported file has one row per record, the row of a record labelled
\* "Cash" or with the Thai label for cash is CASH and the row of a record
\* with any other label is TRANSFER: such a record is neither dropped nor
\* a reason to refuse the file.
C12_PosPaymentMethodIsCashOrTransfer ==
    /\ \A k \in PosLedgerRows : ledger[k].payment_method \in {"CASH", "TRANSFER"}
    /\ pos_call.result = "ok" =>
          /\ pos_call.rows_inserted = Len(pos_call.records)
          /\ \A i \in 1..Len(pos_call.records) :
                \E k \in PosRowsOf(pos_call.batch) :
                    /\ ledger[k].transaction_id = <<pos_call.batch, i>>
                    /\ ledger[k].payment_method =
                          ExpectedPaymentMethod(pos_call.records[i].payment_type)
    /\ (pos_call.batch # NULL /\ \A i \in 1..Len(pos_call.records) : pos_call.records[i].amount > 0)
          => pos_call.result = "ok"

C12_Witness ==
    /\ pos_call.result = "ok"
    /\ \E i \in 1..Len(pos_call.records) : pos_call.records[i].payment_type = "KPlus"
    /\ \E i \in 1..Len(pos_call.records) : pos_call.records[i].payment_type = "ngoensot"
    /\ \E k \in PosRowsOf(pos_call.batch) : ledger[k].payment_method = "TRANSFER"
    /\ \E k \in PosRowsOf(pos_call.batch) : ledger[k].payment_method = "CASH"

NegativeTotalRejected ==
    (pos_call' # pos_call /\ SumAmounts(pos_call'.records) < 0) =>
        /\ pos_call'.result = "HTTP 400"
        /\ pos_call'.rows_inserted = 0
        /\ ledger' = ledger

\* C13: a POS file whose amounts sum to less than zero is refused as a
\* whole with one error, and the call leaves the ledger as it was.
C13_NegativeBatchTotalRejected == [][NegativeTotalRejected]_vars

C13_Witness ==
    /\ pos_call.result = "HTTP 400"
    /\ SumAmounts(pos_call.records) < 0
    /\ \E i \in 1..Len(pos_call.records) : pos_call.records[i].amount > 0
    /\ Len(ledger) > 0
    /\ PosRowsOf(pos_call.batch) = {}

\* ------------------------------------------------------------------------
\* Summary properties
\* ------------------------------------------------------------------------
Answered == summary_call.pc = "answered" /\ summary_call.error = NULL

\* Positions of the ledger rows of the queried branch within the queried range.
InRangeIdx ==
    {k \in 1..Len(ledger) :
        /\ ledger[k].branch_id = summary_call.branch_id
        /\ summary_call.start_date <= ledger[k].date
        /\ ledger[k].date <= summary_call.end_date}

RevenueIdx == {k \in InRangeIdx : ledger[k].type = "REVENUE"}

\* The expense rows the query selects: all of them, or those of the filter.
ExpenseIdx ==
    {k \in InRangeIdx :
        /\ ledger[k].type = "EXPENSE"
        /\ summary_call.category_id # NULL => ledger[k].category_id = summary_call.category_id}

RECURSIVE SumIdx(_)
SumIdx(S) ==
    IF S = {} THEN 0
    ELSE LET k == CHOOSE x \in S : TRUE IN ledger[k].amount + SumIdx(S \ {k})

IsScenario ==
    /\ Answered
    /\ ledger = <<RowChoices[1], RowChoices[2], RowChoices[3]>>
    /\ summary_call.branch_id = "b2"
    /\ summary_call.start_date <= 2
    /\ summary_call.end_date = 2
    /\ summary_call.category_id = NULL

\* C15: a summary has total_revenue equal to the sum of the REVENUE amounts
\* in range, total_expense equal to the sum of the EXPENSE amounts the query
\* selects, and net_profit equal to their difference; over the rows EXPENSE
\* F1 300, EXPENSE F6 50 and REVENUE 1000 it has 1000, 350 and 650.
C15_SummaryTotals ==
    /\ Answered =>
          /\ summary_call.result.total_revenue = SumIdx(RevenueIdx)
          /\ summary_call.result.total_expense = SumIdx(ExpenseIdx)
          /\ summary_call.result.net_profit = SumIdx(RevenueIdx) - SumIdx(ExpenseIdx)
    /\ IsScenario =>
          /\ summary_call.result.total_revenue = 1000
          /\ summary_call.result.total_expense = 350
          /\ summary_call.result.net_profit = 650

C15_Witness ==
    /\ IsScenario
    /\ summary_call.result.net_profit = 650

\* C16: a summary over a range with no ledger rows has zero revenue, zero
\* expense and no top category, and a summary with zero revenue has the
\* cost ratio 0, whatever the expenses.
C16_EmptyRangeAndZeroRevenue ==
    /\ (Answered /\ InRangeIdx = {}) =>
          /\ summary_call.result.total_revenue = 0
          /\ summary_call.result.total_expense = 0
          /\ summary_call.result.net_profit = 0
          /\ summary_call.result.top_expense_category = NULL
          /\ summary_call.result.expense_by_category = <<>>
    /\ (Answered /\ summary_call.result.total_revenue = 0) =>
          summary_call.result.food_cost_percent = 0

C16_Witness ==
    /\ Answered
    /\ Len(ledger) = MaxLedgerRows
    /\ InRangeIdx = {}
    /\ summary_call.result.food_cost_percent = 0

ZeroRevenueWithFoodCost ==
    /\ Answered
    /\ summary_call.result.total_revenue = 0
    /\ \E k \in ExpenseIdx : ledger[k].category_id = "F1"

GroupTotal(c) == SumIdx({k \in ExpenseIdx : ledger[k].category_id = c})

\* C17: the breakdown of a summary has one entry for each category of the
\* expense rows the query selects, with the total of that category, in
\* descending order of total; top_expense_category is a category of the
\* highest total, and is null exactly when the query selects no expense row.
C17_BreakdownDescendingAndTop ==
    Answered =>
        LET groups == summary_call.result.expense_by_category
            top    == summary_call.result.top_expense_category
        IN  /\ {groups[i].category_id : i \in 1..Len(groups)} =
                   {ledger[k].category_id : k \in ExpenseIdx}
            /\ \A i, j \in 1..Len(groups) :
                   i # j => groups[i].category_id # groups[j].category_id
            /\ \A i \in 1..Len(groups) : groups[i].total = GroupTotal(groups[i].category_id)
            /\ \A i, j \in 1..Len(groups) : i < j => groups[i].total >= groups[j].total
            /\ top = NULL <=> ExpenseIdx = {}
            /\ top # NULL =>
                   /\ \E k \in ExpenseIdx : ledger[k].category_id = top
                   /\ \A k \in ExpenseIdx : GroupTotal(top) >= GroupTotal(ledger[k].category_id)

C17_Witness ==
    /\ Answered
    /\ Len(summary_call.result.expense_by_category) = 2
    /\ summary_call.result.expense_by_category[1].total
          > summary_call.result.expense_by_category[2].total
    /\ summary_call.result.top_expense_category = "F1"
    /\ Cardinality({k \in ExpenseIdx : ledger[k].category_id = "F1"}) = 2

ForeignFilter ==
    /\ summary_call.pc = "answered"
    /\ summary_call.category_id # NULL
    /\ summary_call.category_id \notin getCategoryOptions(BranchTypeOf(summary_call.branch_id))

\* C18: a summary query whose category filter is not a category of the
\* branch's business type is answered with a validation error, without a
\* scan of the ledger and without a summary.
C18_ForeignFilterIsValidationError ==
    ForeignFilter =>
        /\ summary_call.error = "ValidationError"
        /\ ~summary_call.scan
        /\ summary_call.scanned = {}
        /\ summary_call.result = NoSummary

C18_Witness ==
    /\ ForeignFilter
    /\ summary_call.error = "ValidationError"
    /\ summary_call.branch_id = "b2"
    /\ summary_call.category_id = "C1"
    /\ summary_call.start_date <= summary_call.end_date
    /\ InRangeIdx # {}

\* ------------------------------------------------------------------------
\* Ledger properties
\* ------------------------------------------------------------------------
\* C14: every ledger row has an amount of zero or more, whatever verify
\* requests and POS files were handled, among them a verify request with a
\* negative item and a POS file with a negative record whose total is not
\* negative.
C14_LedgerAmountsNonNegative == \A k \in 1..Len(ledger) : ledger[k].amount >= 0

C14_Witness ==
    /\ \E k \in 1..Len(ledger) : ledger[k].source = "POS_FILE"
    /\ \E k \in 1..Len(ledger) : ledger[k].source = "OCR"
    /\ pos_call.result = "HTTP 400"
    /\ \E i \in 1..Len(pos_call.records) : pos_call.records[i].amount < 0
    /\ SumAmounts(pos_call.records) >= 0
    /\ \E q \in Slots : reqs[q].result = "ValidationError: amount"

RowOfItem(rid, i) == {k \in 1..Len(ledger) : ledger[k].transaction_id = <<rid, i>>}

CommitAcknowledged(rid) ==
    \E q \in Slots : reqs[q].rid = rid /\ reqs[q].pc = "responded" /\ reqs[q].result = "ok"

ScannedOf(id) == {tid \in summary_call.scanned : tid[1] = id}

C20_WitnessNone ==
    /\ summary_call.pc = "answered"
    /\ \E q \in Slots : reqs[q].pc = "insert" /\ reqs[q].rid = "r2" /\ reqs[q].attempts = 0
    /\ rc_status["r2"] = "VERIFIED"
    /\ ScannedOf("r2") = {}
    /\ summary_call.scanned = TransactionIds(ledger)

\* ------------------------------------------------------------------------
\* The ledger is append-only
\* ------------------------------------------------------------------------
IsPrefix(old, new) == Len(old) <= Len(new) /\ SubSeq(new, 1, Len(old)) = old

\* The rows a step has appended to the ledger.
Appended == SubSeq(ledger', Len(ledger) + 1, Len(ledger'))

\* The step is the insert of a verification: the rows added are rows of the
\* receipt of a request that stands before its insert.
CommitOfReceipt ==
    \E q \in Slots :
        /\ reqs[q].pc = "insert"
        /\ \A k \in 1..Len(Appended) :
              /\ Appended[k].source = "OCR"
              /\ Appended[k].transaction_id[1] = reqs[q].rid

\* The step is the insert of an accepted POS file: the rows added are the
\* rows of that file.
CommitOfPosBatch ==
    /\ pos_call'.result = "ok"
    /\ pos_batches[pos_call'.batch] = 0
    /\ \A k \in 1..Len(Appended) :
          /\ Appended[k].source = "POS_FILE"
          /\ Appended[k].transaction_id[1] = pos_call'.batch

LedgerStep ==
    /\ IsPrefix(ledger, ledger')
    /\ ledger' # ledger => CommitOfReceipt \/ CommitOfPosBatch
    /\ summary_call' # summary_call => ledger' = ledger

\* C21: in every step the rows already in the ledger stay as they are and
\* where they are, rows are added only by the insert of a verification or of
\* an accepted POS file, and a summary query leaves the ledger unchanged.
C21_LedgerIsAppendOnly == [][LedgerStep]_vars

C21_Witness ==
    /\ Len(ledger) = 4
    /\ ledger[1].source = "POS_FILE" /\ ledger[2].source = "POS_FILE"
    /\ ledger[3].source = "OCR" /\ ledger[4].source = "OCR"
    /\ summary_call.pc = "answered"
    /\ summary_call.scanned = TransactionIds(ledger)
    /\ \E q \in Slots : reqs[q].pc = "insert" /\ reqs[q].attempts = 2

\* ------------------------------------------------------------------------
\* The receipt validation page: what it sends
\* ------------------------------------------------------------------------
\* C28: a page that has shown the success of its verification awaits no
\* verify request afterwards.
C28_NoVerifyAfterSuccess ==
    \A p \in Pages : pages[p].toast => AwaitedOfPage(p) = {}

\* C29: the categories in a verify request of a page are categories of the
\* business type of the receipt's branch.
C29_PageSendsCategoriesOfBranchType ==
    \A q \in Slots :
        reqs[q].origin \in Pages =>
            \A i \in 1..Len(reqs[q].items) :
                reqs[q].items[i].category_id \in getCategoryOptions(BranchType(reqs[q].rid))

\* The texts of the amount field that are numerals.
Numerals == {"0", "1", "2", "-1"}

\* The items of the form are complete: there is one, and each has a
\* description, a numeral that is not negative as amount, and a category.
FormComplete(items) ==
    /\ Len(items) > 0
    /\ \A i \in 1..Len(items) :
          /\ items[i].description # <<>>
          /\ items[i].amount \in Numerals
          /\ Number(items[i].amount) >= 0
          /\ items[i].category_id # ""

PageSendsCompleteForm ==
    \A p \in Pages, q \in Slots :
        (reqs[q].pc = "free" /\ reqs'[q].origin = p) =>
            /\ reqs'[q].total_check = SumAmounts(reqs'[q].items)
            /\ FormComplete(pages[p].items)

\* C30: a step in which a page sends a verify request sends the sum of the
\* request's amounts as total_check, and is taken only with a form whose
\* items are complete.
C30_PageSendsSumOfCompleteForm == [][PageSendsCompleteForm]_vars

\* ------------------------------------------------------------------------
\* Authentication: actions and specification
\* ------------------------------------------------------------------------
\* Firebase Auth sets auth.currentUser and queues the call of the listener.
SetCurrentUser(u) ==
    [currentUser |-> u,
     events |-> IF u = auth.currentUser THEN auth.events ELSE Append(auth.events, u),
     changes |-> auth.changes + 1]

\* A handler started on the mounted page is pending.
Starts(handler) ==
    /\ layout.page = handler.page
    /\ BagCardinality(layout.pending) < MaxPending
    /\ layout' = [layout EXCEPT !.pending = @ (+) SetToBag({handler})]

\* A pending handler started on page ends; route is where it sends the
\* router, NULL when it ends without a call of the router.
Ends(page, resolved, route) ==
    \E h \in BagToSet(layout.pending) :
        /\ h.page = page
        /\ h.resolved = resolved
        /\ layout' = [layout EXCEPT !.pending = @ (-) SetToBag({h}),
                                    !.route = IF route = NULL THEN @ ELSE route]

\* Firebase Auth signs in the user of a pending handler started on page.
Signs(page) ==
    \E h \in BagToSet(layout.pending) :
        /\ h.page = page
        /\ ~h.resolved
        /\ auth.changes < MaxAuthChanges
        /\ auth' = SetCurrentUser(h.user)
        /\ layout' = [layout EXCEPT !.pending =
                          (@ (-) SetToBag({h}))
                              (+) SetToBag({[h EXCEPT !.resolved = TRUE, !.user = NULL]})]

\* LoginPage onSubmit, up to the await of signInWithEmailAndPassword, with the
\* credentials of u.
onSubmit(u) ==
    /\ layout.screen = "login"
    /\ SubmitEnabled(layout, provider)
    /\ Starts(Pending("/login", u))
    /\ UNCHANGED <<auth, provider, fetches, api_call, dash, dash_reqs, ai_call,
                   catVars, lifeVars, upload, pos_call, pos_batches, summary_call>>

\* signInWithEmailAndPassword succeeds: the user is signed in.
signInWithEmailAndPassword ==
    /\ Signs("/login")
    /\ UNCHANGED <<provider, fetches, api_call, dash, dash_reqs, ai_call,
                   catVars, lifeVars, upload, pos_call, pos_batches, summary_call>>

\* LoginPage onSubmit after the await: router.replace("/dashboard"), finally.
onSubmitReplace ==
    /\ Ends("/login", TRUE, "/dashboard")
    /\ UNCHANGED <<auth, provider, fetches, api_call, dash, dash_reqs, ai_call,
                   catVars, lifeVars, upload, pos_call, pos_batches, summary_call>>

\* signInWithEmailAndPassword rejects (wrong password, unknown user, too
\* many requests): catch and finally of LoginPage onSubmit; nobody is signed
\* in by it and the router is not called.
onSubmitRefused ==
    /\ Ends("/login", FALSE, NULL)
    /\ UNCHANGED <<auth, provider, fetches, api_call, dash, dash_reqs, ai_call,
                   catVars, lifeVars, upload, pos_call, pos_batches, summary_call>>

\* SignupPage onSubmit, up to the await of createUserWithEmailAndPassword.
signupOnSubmit(u) ==
    /\ layout.screen = "signup"
    /\ SubmitEnabled(layout, provider)
    /\ Starts(Pending("/signup", u))
    /\ UNCHANGED <<auth, provider, fetches, api_call, dash, dash_reqs, ai_call,
                   catVars, lifeVars, upload, pos_call, pos_batches, summary_call>>

\* createUserWithEmailAndPassword succeeds: the account exists and is
\* signed in.
createUserWithEmailAndPassword ==
    /\ Signs("/signup")
    /\ UNCHANGED <<provider, fetches, api_call, dash, dash_reqs, ai_call,
                   catVars, lifeVars, upload, pos_call, pos_batches, summary_call>>

\* SignupPage onSubmit after updateProfile and setDoc have ended, the write
\* of users/{uid} done or failed: router.replace("/dashboard/upload-receipt").
signupOnSubmitReplace ==
    /\ Ends("/signup", TRUE, "/dashboard/upload-receipt")
    /\ UNCHANGED <<auth, provider, fetches, api_call, dash, dash_reqs, ai_call,
                   catVars, lifeVars, upload, pos_call, pos_batches, summary_call>>

\* createUserWithEmailAndPassword rejects (email in use, weak password): the
\* outer catch and finally of SignupPage onSubmit.
signupOnSubmitRefused ==
    /\ Ends("/signup", FALSE, NULL)
    /\ UNCHANGED <<auth, provider, fetches, api_call, dash, dash_reqs, ai_call,
                   catVars, lifeVars, upload, pos_call, pos_batches, summary_call>>

\* UploadReceiptPage handleUpload with a file chosen and a branch selected,
\* up to the await of api.post.
handleUpload ==
    /\ layout.screen = "children"
    /\ ~submitting(layout)
    /\ Starts(Pending("/dashboard/upload-receipt", NULL))
    /\ UNCHANGED <<auth, provider, fetches, api_call, dash, dash_reqs, ai_call,
                   catVars, lifeVars, upload, pos_call, pos_batches, summary_call>>

\* handleUpload after the await, selectedBranchId being the branch that was
\* selected when the handler started: the upload has succeeded, that branch
\* is stored as last_selected_branch_id in localStorage and the router is
\* pushed to the page of the new receipt; or the upload has failed and
\* nothing is stored.
handleUploadDone(ok, selectedBranchId) ==
    /\ Ends("/dashboard/upload-receipt", FALSE, IF ok THEN ReceiptRoute ELSE NULL)
    /\ dash' = IF ok THEN [dash EXCEPT !.last_selected_branch_id = selectedBranchId]
                ELSE dash
    /\ UNCHANGED <<auth, provider, fetches, api_call, dash_reqs, ai_call,
                   catVars, lifeVars, upload, pos_call, pos_batches, summary_call>>

\* ReceiptValidationPage handleVerifyAndSave with a valid form, up to the
\* await of api.put: setSaving(true) disables the button.
handleVerifyAndSavePut ==
    /\ layout.screen = "children"
    /\ ~submitting(layout)
    /\ Starts(Pending(ReceiptRoute, NULL))
    /\ UNCHANGED <<auth, provider, fetches, api_call, dash, dash_reqs, ai_call,
                   catVars, lifeVars, upload, pos_call, pos_batches, summary_call>>

\* api.put has resolved: the 900 ms timer is set, also when the page has
\* been unmounted meanwhile, and finally setSaving(false) enables the button
\* again while the timer runs.
setTimeout ==
    /\ \E h \in BagToSet(layout.pending) :
          /\ h.page = ReceiptRoute
          /\ ~h.resolved
          /\ layout' = [layout EXCEPT !.pending =
                            (@ (-) SetToBag({h}))
                                (+) SetToBag({[h EXCEPT !.resolved = TRUE, !.own = FALSE]})]
    /\ UNCHANGED <<auth, provider, fetches, api_call, dash, dash_reqs, ai_call,
                   catVars, lifeVars, upload, pos_call, pos_batches, summary_call>>

\* api.put has rejected: catch and finally of handleVerifyAndSave, no timer.
handleVerifyAndSaveCatch ==
    /\ Ends(ReceiptRoute, FALSE, NULL)
    /\ UNCHANGED <<auth, provider, fetches, api_call, dash, dash_reqs, ai_call,
                   catVars, lifeVars, upload, pos_call, pos_batches, summary_call>>

\* The timer fires: router.push("/dashboard/upload-receipt").
setTimeoutFired ==
    /\ Ends(ReceiptRoute, TRUE, "/dashboard/upload-receipt")
    /\ UNCHANGED <<auth, provider, fetches, api_call, dash, dash_reqs, ai_call,
                   catVars, lifeVars, upload, pos_call, pos_batches, summary_call>>

\* A click on a link or a navigation button of the mounted page.
Link(href) ==
    /\ href \in Hrefs(layout)
    /\ layout.route # href
    /\ layout' = [layout EXCEPT !.route = href]
    /\ UNCHANGED <<auth, provider, fetches, api_call, dash, dash_reqs, ai_call,
                   catVars, lifeVars, upload, pos_call, pos_batches, summary_call>>

\* The session is ended from another tab of the browser: Firebase Auth
\* brings the state of this tab in line.
SignedOutElsewhere ==
    /\ auth.currentUser # NULL
    /\ auth.changes < MaxAuthChanges
    /\ auth' = SetCurrentUser(NULL)
    /\ UNCHANGED <<provider, fetches, layout, api_call, dash, dash_reqs, ai_call,
                   catVars, lifeVars, upload, pos_call, pos_batches, summary_call>>

\* handleLogout, up to the await of signOut(auth).
handleLogout ==
    /\ layout.screen = "children"
    /\ ~layout.logout
    /\ auth.changes < MaxAuthChanges
    /\ auth' = SetCurrentUser(NULL)
    /\ layout' = [layout EXCEPT !.logout = TRUE]
    /\ UNCHANGED <<provider, fetches, api_call, dash, dash_reqs, ai_call,
                   catVars, lifeVars, upload, pos_call, pos_batches, summary_call>>

\* handleLogout after the await: router.replace("/login").
handleLogoutDone ==
    /\ layout.logout
    /\ layout' = [layout EXCEPT !.logout = FALSE, !.route = "/login"]
    /\ UNCHANGED <<auth, provider, fetches, api_call, dash, dash_reqs, ai_call,
                   catVars, lifeVars, upload, pos_call, pos_batches, summary_call>>

\* The router has changed the route: the page that was mounted unmounts and
\* the page of the new route mounts and renders. A component that mounts
\* runs its effect; DashboardLayout stays mounted between two routes of its
\* group and does not run its effect again.
RouteChanged ==
    /\ layout.route # Mounted(layout)
    /\ layout' = [layout EXCEPT !.page = layout.route,
                                !.screen = Screen(layout.route, provider),
                                !.route = IF EffectHolder(layout.route) = EffectHolder(Mounted(layout))
                                          THEN layout.route
                                          ELSE Redirect(layout.route, provider, layout.route),
                                !.pending = Unmounted(@)]
    /\ UNCHANGED <<auth, provider, fetches, api_call, dash, dash_reqs, ai_call,
                   catVars, lifeVars, upload, pos_call, pos_batches, summary_call>>

\* The callback of onAuthStateChanged with nextUser, and the render that
\* follows it.
AuthStateChanged ==
    /\ auth.events # <<>>
    /\ auth' = [auth EXCEPT !.events = Tail(@)]
    /\ LET nextUser == Head(auth.events) IN
         /\ provider' = IF nextUser = NULL
                        THEN [user |-> NULL, profile |-> NoProfile, loading |-> FALSE]
                        ELSE [provider EXCEPT !.user = nextUser, !.loading = TRUE]
         /\ fetches' = IF nextUser = NULL THEN fetches
                       ELSE fetches (+) SetToBag({nextUser})
    /\ layout' = Rendered(layout, provider, provider')
    /\ UNCHANGED <<api_call, dash, dash_reqs, ai_call,
                   catVars, lifeVars, upload, pos_call, pos_batches, summary_call>>

\* A profile read started by a callback with the user uid ends: the rest
\* of the async function, and the render that follows it.
getDocDone(uid, outcome) ==
    /\ uid \in BagToSet(fetches)
    /\ fetches' = fetches (-) SetToBag({uid})
    /\ provider' = [provider EXCEPT !.profile = ProfileOf(uid, outcome),
                                    !.loading = FALSE]
    /\ layout' = Rendered(layout, provider, provider')
    /\ UNCHANGED <<auth, api_call, dash, dash_reqs, ai_call,
                   catVars, lifeVars, upload, pos_call, pos_batches, summary_call>>

\* A page under the dashboard layout calls the api client. The request
\* interceptor reads auth.currentUser: with no user the request goes out as
\* it is, with a user the interceptor awaits user.getIdToken().
ApiRequest(path) ==
    /\ layout.screen = "children"
    /\ api_call.pc # "token"
    /\ api_call' = IF auth.currentUser = NULL
                   THEN [path |-> path, user |-> NULL, pc |-> "sent", sent |-> TRUE,
                         Authorization |-> Interceptor(NULL)]
                   ELSE [path |-> path, user |-> auth.currentUser, pc |-> "token",
                         sent |-> FALSE, Authorization |-> NoHeader]
    /\ api_call' # api_call
    /\ UNCHANGED <<auth, provider, fetches, layout, dash, dash_reqs, ai_call,
                   catVars, lifeVars, upload, pos_call, pos_batches, summary_call>>

\* The interceptor after the await: the token of the user it read is put in
\* the header and the request is sent, whoever is the current user by now;
\* when getIdToken has failed, the request is not sent.
getIdTokenDone(tokenOk) ==
    /\ api_call.pc = "token"
    /\ api_call' = IF tokenOk
                   THEN [api_call EXCEPT !.pc = "sent", !.sent = TRUE,
                                         !.Authorization = Interceptor(api_call.user)]
                   ELSE [api_call EXCEPT !.pc = "failed"]
    /\ UNCHANGED <<auth, provider, fetches, layout, dash, dash_reqs, ai_call,
                   catVars, lifeVars, upload, pos_call, pos_batches, summary_call>>

AuthNext ==
    \/ \E u \in Users : onSubmit(u)
    \/ signInWithEmailAndPassword
    \/ onSubmitReplace
    \/ onSubmitRefused
    \/ \E u \in SignupUsers : signupOnSubmit(u)
    \/ createUserWithEmailAndPassword
    \/ signupOnSubmitReplace
    \/ signupOnSubmitRefused
    \/ handleUpload
    \/ \E ok \in BOOLEAN, selectedBranchId \in Branches : handleUploadDone(ok, selectedBranchId)
    \/ handleVerifyAndSavePut
    \/ setTimeout
    \/ handleVerifyAndSaveCatch
    \/ setTimeoutFired
    \/ \E href \in Routes : Link(href)
    \/ SignedOutElsewhere
    \/ handleLogout
    \/ handleLogoutDone
    \/ RouteChanged
    \/ AuthStateChanged
    \/ \E uid \in Users, outcome \in GetDocOutcomes : getDocDone(uid, outcome)

\* The application is opened on any of its routes with nobody signed in: the
\* first call of the auth listener is still to come. Firestore holds the
\* receipt of the receipt page, a draft; the ledger is empty, no verify
\* request has been made and no receipt has been loaded by a page.
AuthInit ==
    /\ rc_status = [r \in {receiptId("p1")} |-> "DRAFT"]
    /\ rc_items = [r \in {receiptId("p1")} |-> DraftItems(r)]
    /\ ledger = <<>>
    /\ reqs = <<>>
    /\ pages = <<>>
    /\ reject_call = [rid |-> NULL, result |-> NULL]
    /\ CatIdle
    /\ upload = NoUpload
    /\ pos_call = NoPosCall
    /\ pos_batches = [b \in PosBatches |-> 0]
    /\ summary_call = NoSummaryCall
    /\ DashIdle
    /\ auth = [currentUser |-> NULL, events |-> <<NULL>>, changes |-> 0]
    /\ provider = ProviderStart
    /\ fetches = EmptyBag
    /\ \E route \in Routes : layout = Opened(route)
    /\ api_call = NoApiCall

SpecAuth == AuthInit /\ [][AuthNext]_vars

\* The api client in use under the dashboard layout while users sign in on
\* the login page and sign out. No other action reads api_call.
ApiNext ==
    \/ \E u \in Users : onSubmit(u)
    \/ signInWithEmailAndPassword
    \/ onSubmitReplace
    \/ onSubmitRefused
    \/ SignedOutElsewhere
    \/ handleLogout
    \/ handleLogoutDone
    \/ RouteChanged
    \/ AuthStateChanged
    \/ \E uid \in Users, outcome \in GetDocOutcomes : getDocDone(uid, outcome)
    \/ \E path \in ApiPaths : ApiRequest(path)
    \/ \E tokenOk \in BOOLEAN : getIdTokenDone(tokenOk)

SpecApi == Init /\ [][ApiNext]_vars

\* ------------------------------------------------------------------------
\* Authentication properties
\* ------------------------------------------------------------------------
\* C22: a request sent through the api client carries the header
\* Authorization: Bearer <ID token of a user>.
C22_RequestsCarryBearerToken ==
    api_call.sent =>
        /\ api_call.Authorization.scheme = "Bearer"
        /\ \E u \in Users : api_call.Authorization.token = getIdToken(u)

\* The layout is mounted with loading over and no user.
NoUserInLayout(lay, p) == lay.screen \in DashboardScreens /\ ~p.loading /\ p.user = NULL

\* A step that brings the layout to loading over and no user, by a render or
\* by mounting it, sends the router to /login.
LayoutRedirects ==
    (NoUserInLayout(layout', provider') /\ ~NoUserInLayout(layout, provider))
        => layout'.route = "/login"

\* C23: the dashboard layout shows its children only when loading is over
\* and there is a user, and the step in which it comes to be mounted with
\* loading over and no user sends the router to /login.
C23_LayoutGuardsChildren ==
    /\ [](layout.screen = "children" => ~provider.loading /\ provider.user # NULL)
    /\ [][LayoutRedirects]_vars

C23_Witness ==
    /\ layout.screen = "nothing"
    /\ layout.route = "/login"
    /\ ~provider.loading
    /\ provider.user = NULL
    /\ auth.changes >= 2
    /\ fetches = EmptyBag
    /\ auth.events = <<>>

\* C26: whenever loading is false, the profile is null or the document of
\* the current user; with no user it is null.
C26_ProfileBelongsToUser ==
    ~provider.loading =>
        \/ provider.profile = NoProfile
        \/ provider.user # NULL /\ provider.profile = UserDoc(provider.user)

\* ------------------------------------------------------------------------
\* Dashboard: actions and specification
\* ------------------------------------------------------------------------
\* What the model selects in the category filter, of the options offered.
DashCategoryEdits == {"", "C1", "F1"}

\* localStorage last_selected_branch_id when the page is opened.
StoredBranchIds == {NULL, "b1", "b2"}

\* A user is signed in, the profile read is over, and the dashboard page
\* mounts under the layout.
DashInit ==
    /\ LifeStart
    /\ CatIdle
    /\ upload = NoUpload
    /\ pos_call = NoPosCall
    /\ pos_batches = [b \in PosBatches |-> 0]
    /\ summary_call = NoSummaryCall
    /\ auth = [currentUser |-> "u1", events |-> <<>>, changes |-> 1]
    /\ fetches = EmptyBag
    /\ layout = [Opened("/dashboard") EXCEPT !.screen = "children"]
    /\ api_call = NoApiCall
    /\ \E profile \in DashProfiles :
          provider = [user |-> "u1", profile |-> profile, loading |-> FALSE]
    /\ \E lastBranchId \in StoredBranchIds : dash = DashStart(lastBranchId)
    /\ dash_reqs = <<>>
    /\ ai_call = NoAiCall

\* The state d and the requests sent become the state of the page, within
\* the number of requests followed.
DashBecomes(after) ==
    /\ Len(after.reqs) <= MaxSummaryRequests
    /\ dash' = after.dash
    /\ dash_reqs' = after.reqs

\* loadBranches after its await: the list has arrived.
loadBranchesDone(branchList) ==
    /\ dash.isLoadingBranches
    /\ DashBecomes(afterRender(provider.profile, dash,
          [dash EXCEPT !.branches = branchList,
                       !.selectedBranchId =
                           nextBranchId(provider.profile, branchList,
                                        dash.last_selected_branch_id),
                       !.selectedCategoryId = "",
                       !.isLoadingBranches = FALSE],
          dash_reqs))
    /\ UNCHANGED <<auth, provider, fetches, layout, api_call, ai_call,
                   catVars, lifeVars, upload, pos_call, pos_batches, summary_call>>

\* loadBranches after its await: the request has failed.
loadBranchesFailed ==
    /\ dash.isLoadingBranches
    /\ dash' = [dash EXCEPT !.error = "request", !.isLoadingBranches = FALSE]
    /\ UNCHANGED <<auth, provider, fetches, layout, api_call, dash_reqs, ai_call,
                   catVars, lifeVars, upload, pos_call, pos_batches, summary_call>>

\* onChange of the branch select, and the effects of the render after it.
onBranchChange(branch_id) ==
    /\ ~dash.isLoadingBranches
    /\ canSelectAnyBranch(provider.profile)
    /\ hasBranch(dash.branches, branch_id)
    /\ branch_id # dash.selectedBranchId
    /\ DashBecomes(afterRender(provider.profile, dash, selectBranch(dash, branch_id),
                               dash_reqs))
    /\ UNCHANGED <<auth, provider, fetches, layout, api_call, ai_call,
                   catVars, lifeVars, upload, pos_call, pos_batches, summary_call>>

\* onChange of the category filter.
onCategoryChange(category_id) ==
    /\ categoryOptions(dash) # {}
    /\ category_id \in {""} \cup categoryOptions(dash)
    /\ category_id # dash.selectedCategoryId
    /\ dash' = [dash EXCEPT !.selectedCategoryId = category_id]
    /\ UNCHANGED <<auth, provider, fetches, layout, api_call, dash_reqs, ai_call,
                   catVars, lifeVars, upload, pos_call, pos_batches, summary_call>>

\* onChange of the start date.
setStartDate(date) ==
    /\ date # dash.startDate
    /\ dash' = [dash EXCEPT !.startDate = date]
    /\ UNCHANGED <<auth, provider, fetches, layout, api_call, dash_reqs, ai_call,
                   catVars, lifeVars, upload, pos_call, pos_batches, summary_call>>

\* onChange of the end date.
setEndDate(date) ==
    /\ date # dash.endDate
    /\ dash' = [dash EXCEPT !.endDate = date]
    /\ UNCHANGED <<auth, provider, fetches, layout, api_call, dash_reqs, ai_call,
                   catVars, lifeVars, upload, pos_call, pos_batches, summary_call>>

\* Apply Filters: loadSummary up to its await or its early return.
ApplyFilters ==
    /\ ApplyEnabled(dash)
    /\ loadSummary(dash, dash_reqs).dash # dash
    /\ DashBecomes(loadSummary(dash, dash_reqs))
    /\ UNCHANGED <<auth, provider, fetches, layout, api_call, ai_call,
                   catVars, lifeVars, upload, pos_call, pos_batches, summary_call>>

\* loadSummary after its await, for the k-th request: the response is
\* displayed, or the request has failed and the summary is cleared.
SummaryResponded(k, ok) ==
    /\ k \in 1..Len(dash_reqs)
    /\ dash_reqs[k].pc = "sent"
    /\ dash_reqs' = [dash_reqs EXCEPT ![k] = SummaryAnswered(IF ok THEN "done" ELSE "failed")]
    /\ dash' = IF ok
               THEN [dash EXCEPT !.summary = k,
                                 !.isLoadingSummary = FALSE,
                                 !.last_selected_branch_id =
                                     IF canSelectAnyBranch(provider.profile)
                                     THEN dash_reqs[k].branch_id ELSE @]
               ELSE [dash EXCEPT !.summary = 0, !.error = "request",
                                 !.isLoadingSummary = FALSE]
    /\ UNCHANGED <<auth, provider, fetches, layout, api_call, ai_call,
                   catVars, lifeVars, upload, pos_call, pos_batches, summary_call>>

\* handleAskAi with a question: the request it sends.
handleAskAi ==
    /\ dash.selectedBranchId # ""
    /\ ai_call' = [context_branch |-> dash.selectedBranchId,
                   category_id |-> IF dash.selectedCategoryId = "" THEN NULL
                                   ELSE dash.selectedCategoryId,
                   sent |-> TRUE]
    /\ ai_call' # ai_call
    /\ UNCHANGED <<auth, provider, fetches, layout, api_call, dash, dash_reqs,
                   catVars, lifeVars, upload, pos_call, pos_batches, summary_call>>

DashNext ==
    \/ \E branchList \in BranchLists : loadBranchesDone(branchList)
    \/ loadBranchesFailed
    \/ \E b \in Branches : onBranchChange(b)
    \/ \E c \in DashCategoryEdits : onCategoryChange(c)
    \/ \E date \in DashDates : setStartDate(date)
    \/ \E date \in DashEndDates : setEndDate(date)
    \/ ApplyFilters
    \/ \E k \in 1..MaxSummaryRequests, ok \in BOOLEAN : SummaryResponded(k, ok)
    \/ handleAskAi

SpecDash == DashInit /\ [][DashNext]_vars

\* ------------------------------------------------------------------------
\* Dashboard properties
\* ------------------------------------------------------------------------
\* C24: for a user who is neither admin nor executive, every summary
\* request and the AI chat request carry the profile's default_branch_id.
C24_StaffRequestsCarryDefaultBranch ==
    ~canSelectAnyBranch(provider.profile) =>
        /\ \A k \in 1..Len(dash_reqs) :
              dash_reqs[k].pc = "sent" =>
                  dash_reqs[k].branch_id = defaultBranchId(provider.profile)
        /\ ai_call.sent => ai_call.context_branch = defaultBranchId(provider.profile)

CategoryFits(category_id, branch_id) ==
    category_id \in getCategoryOptions(BranchTypeOf(branch_id))

\* C25: the selected category is empty or a category of the type of the
\* selected branch, and the category of every summary request and of the AI
\* chat request is a category of the type of the branch the request names.
C25_CategoryBoundToBranchType ==
    /\ dash.selectedCategoryId # "" =>
          CategoryFits(dash.selectedCategoryId, dash.selectedBranchId)
    /\ \A k \in 1..Len(dash_reqs) :
          (dash_reqs[k].pc = "sent" /\ dash_reqs[k].category_id # NULL) =>
              CategoryFits(dash_reqs[k].category_id, dash_reqs[k].branch_id)
    /\ (ai_call.sent /\ ai_call.category_id # NULL) =>
          CategoryFits(ai_call.category_id, ai_call.context_branch)

C25_Witness ==
    /\ Len(dash_reqs) = 2
    /\ dash_reqs[1].branch_id = "b2" /\ dash_reqs[1].category_id = NULL
    /\ dash_reqs[2].branch_id = "b1" /\ dash_reqs[2].category_id = NULL
    /\ dash.selectedBranchId = "b1"
    /\ dash.selectedCategoryId = "C1"
    /\ ai_call.sent /\ ai_call.context_branch = "b1" /\ ai_call.category_id = "C1"

NoneInFlight == \A k \in 1..Len(dash_reqs) : dash_reqs[k].pc # "sent"

\* C27: once no summary request is in flight, what is displayed is the
\* outcome of the request issued last: its response, or no summary if it
\* has failed.
C27_LastRequestIsDisplayed ==
    (NoneInFlight /\ Len(dash_reqs) > 0) =>
        dash.summary = IF dash_reqs[Len(dash_reqs)].pc = "done" THEN Len(dash_reqs) ELSE 0

====
